---- MODULE Spec2Model ----
(***************************************************************************)
(* The render state machine of mdcat (src/render/mod.rs): write_event      *)
(* consumes one pulldown-cmark event, the render State and the StateData,  *)
(* writes to the output sink and returns the new State and StateData;      *)
(* finish flushes the pending link references.                             *)
(*                                                                         *)
(* The event stream is produced by the markdown parser, which is modelled  *)
(* as the environment: a stack `open` of the tags that are open, and the   *)
(* events the parser can emit inside each of them.                         *)
(***************************************************************************)
EXTENDS Integers, Sequences, FiniteSets, TLC

VARIABLES
    state,      \* the render State: [stack, cur]; cur.k = "TopLevel" is State::TopLevel
    data,       \* StateData: [pending_link_definitions, next_link]
    settings,   \* Settings read by write_event: terminal capabilities and size
    open,       \* parser side: the tags opened and not yet closed, outermost first
    last,       \* the event handed to the last write_event call
    closed,     \* parser side: the entry of `open` the last End event closed
    wrote,      \* what the last call wrote to the sink
    doc,        \* what the sink holds, when the sink keeps what it is given
    stream,     \* the events fed so far, when the sink keeps what it is given
    rec,        \* TRUE when the sink keeps what it is given (a buffer), FALSE for a sink that discards
    phase,      \* "run" while events are fed, "finished" after finish, "panicked" after a panic,
                \* "failed" after a call returned the I/O error of the sink
    sink,       \* "ok" while the sink takes what is written, "broken" when every write to it fails
    n,          \* number of write_event calls so far
    pushes,     \* frames pushed so far (stack_onto and push)
    pops,       \* frames popped so far
    trail,      \* sink side: how the output so far ends, [bol, blank]
    limit,      \* the bounds of the documents explored: [events, depth]
    other,      \* a second render with its own writer, State and StateData:
                \* [doc, i, state, data, out, phase], doc = 0 while there is none
    kitty,      \* one call of KittyImages::write_inline_image:
                \* [bytes, dim, pc, i, header, out]
    resource    \* one reference made a Resource and read:
                \* [reference, base_dir, pc, res, file, io, result]

vars == <<state, data, settings, open, last, closed, wrote, doc, stream, rec,
          phase, sink, n, pushes, pops, trail, limit, other, kitty, resource>>

-----------------------------------------------------------------------------
(* Bounds of the model *)

\* events of one document, and tags open at the same time, in Spec
MaxEvents == 8
MaxDepth == 3
\* the same in SpecBlocks
MaxBlockEvents == 8
MaxBlockDepth == 4
\* characters of one Text chunk inside a code block
MaxChunk == 2
MaxListEvents == 8
MaxListDepth == 3
MaxLinkEvents == 7
MaxLinkDepth == 3
MaxRefEvents == 6
MaxRefDepth == 3
MaxInlineEvents == 7
MaxInlineDepth == 4
MaxChunkEvents == 5
MaxChunkDepth == 2

\* events and open tags of one document that ends in a misplaced End, in SpecMismatch
MaxMismatchEvents == 5
MaxMismatchDepth == 3

\* events and open tags of one document of every kind of event, in SpecTotal
MaxTotalEvents == 6
MaxTotalDepth == 3

\* events and open tags of one document that finish is called on, in SpecFinish
MaxFinishEvents == 6
MaxFinishDepth == 3

\* events and open tags of one document written to a sink that breaks, in SpecSink
MaxSinkEvents == 5
MaxSinkDepth == 3

\* events and open tags of one document with images, in SpecImage
MaxImageEvents == 5
MaxImageDepth == 3

\* events and open tags of the first of two documents rendered at once, in SpecTwo
MaxTwoEvents == 5
MaxTwoDepth == 2

\* events and open tags of one document of HTML and other blocks, in SpecHtml
MaxHtmlEvents == 6
MaxHtmlDepth == 3

-----------------------------------------------------------------------------
(* Styles (ansi_term::Style as used by the renderer) *)

StyleNew ==
    [is_italic |-> FALSE, is_bold |-> FALSE, is_strikethrough |-> FALSE, fg |-> "Default"]

fg(style, colour) == [style EXCEPT !.fg = colour]
bold(style) == [style EXCEPT !.is_bold = TRUE]
italic(style) == [style EXCEPT !.is_italic = TRUE]
strikethrough(style) == [style EXCEPT !.is_strikethrough = TRUE]

-----------------------------------------------------------------------------
(* Frames of the render state.  Every frame is a record of the same shape;  *)
(* the fields a variant does not have hold a fixed filler value.            *)

NoList == [state |-> "-", kind |-> "-", no |-> 0]

Frame(k, sub, li, indent, style, margin) ==
    [style |-> style, k |-> k, sub |-> sub, li |-> li, indent |-> indent,
     margin_before |-> margin]

\* State::TopLevel(TopLevelAttrs { margin_before })
TopLevelAttrs(margin) == Frame("TopLevel", "-", NoList, 0, StyleNew, margin)
\* StackedState::StyledBlock(StyledBlockAttrs { margin_before, indent, style })
StyledBlock(margin, indent, style) == Frame("StyledBlock", "-", NoList, indent, style, margin)
\* StackedState::LiteralBlock(LiteralBlockAttrs { indent, style })
LiteralBlock(indent, style) == Frame("LiteralBlock", "-", NoList, indent, style, "-")
\* StackedState::HighlightBlock(HighlightBlockAttrs { ansi, parse_state, highlight_state, indent })
HighlightBlock(indent) == Frame("HighlightBlock", "-", NoList, indent, StyleNew, "-")
\* StackedState::Inline(InlineText, InlineAttrs { indent, style })
InlineText(indent, style) == Frame("Inline", "InlineText", NoList, indent, style, "-")
\* StackedState::Inline(InlineLink(capability), InlineAttrs { indent, style })
InlineLink(indent, style) == Frame("Inline", "InlineLink", NoList, indent, style, "-")
\* StackedState::Inline(ListItem(kind, state), InlineAttrs { indent, style })
ListItem(kind, no, st, indent, style) ==
    Frame("Inline", "ListItem", [state |-> st, kind |-> kind, no |-> no], indent, style, "-")
\* StackedState::RenderedImage
RenderedImage == Frame("RenderedImage", "-", NoList, 0, StyleNew, "-")

\* Inline(state, attrs) with the sub-state of frame f and new attributes
InlineLike(f, indent, style) == [f EXCEPT !.indent = indent, !.style = style]

\* ListItemKind from the start number of Start(List(start)): None is NoStart
NoStart == 0 - 1
ListKind(start) == IF start = NoStart THEN "Unordered" ELSE "Ordered"
ListNo(start) == IF start = NoStart THEN 0 ELSE start

-----------------------------------------------------------------------------
(* The state stack *)

St(stack, cur) == [stack |-> stack, cur |-> cur]

\* State::stack_onto(top_level): a new stack holding the top-level attributes
stack_onto(top_level) == <<top_level>>
\* StateStack::push
push(stack, frame) == Append(stack, frame)
\* StateStack::current
current(stack, frame) == St(stack, frame)
\* StateStack::pop: the last pushed frame becomes current; the top-level
\* attributes come back as State::TopLevel when no stacked frame is left
pop(stack) ==
    IF Len(stack) = 1 THEN St(<<>>, stack[1])
    ELSE St(SubSeq(stack, 1, Len(stack) - 1), stack[Len(stack)])

\* StyledBlockAttrs::block_quote: one quote indent unit deeper, italic
QuoteIndent == 4
block_quote(f) == [f EXCEPT !.indent = f.indent + QuoteIndent, !.style = italic(f.style)]
with_margin_before(f) == [f EXCEPT !.margin_before = "Margin"]
without_margin_before(f) == [f EXCEPT !.margin_before = "NoMargin"]
without_margin_for_html_only(f) == [f EXCEPT !.margin_before = "NoMarginForHtmlOnly"]

-----------------------------------------------------------------------------
(* Writes.  The sink receives tokens [c, w, style]: a character c written   *)
(* w times in a style.  Text is written character by character.            *)

Tok(c, w, style) == [style |-> style, c |-> c, w |-> w]

\* writeln!(writer)
NL == <<Tok("\n", 1, StyleNew)>>
\* write_indent(writer, level): level spaces
write_indent(level) == IF level = 0 THEN <<>> ELSE <<Tok(" ", level, StyleNew)>>
\* write_styled(writer, capabilities, style, text)
write_styled(style, text) == [i \in 1..Len(text) |-> Tok(text[i], 1, style)]
\* write_rule(writer, capabilities, length)
write_rule(length) == IF length = 0 THEN <<>> ELSE <<Tok("rule", length, fg(StyleNew, "Green"))>>
\* write_border(writer, capabilities, terminal_size): a border line
BorderMax == 20
write_border(columns) ==
    <<Tok("border", IF columns < BorderMax THEN columns ELSE BorderMax, fg(StyleNew, "Green"))>> \o NL
\* write_mark(writer, capabilities)
write_mark == <<Tok("mark", 1, StyleNew)>>

\* decimal digits of a natural number, as format!("{}", n) writes them
Digit(d) == <<"0", "1", "2", "3", "4", "5", "6", "7", "8", "9">>[d + 1]
RECURSIVE Dec(_)
Dec(x) == IF x < 10 THEN <<Digit(x)>> ELSE Dec(x \div 10) \o <<Digit(x % 10)>>
\* format!("{:>2}", n): right-aligned, padded with spaces to at least two columns
Pad2(x) == IF x < 10 THEN <<" ">> \o Dec(x) ELSE Dec(x)

-----------------------------------------------------------------------------
(* Results of one write_event call *)

Ok(st, d, w) == [state |-> st, data |-> d, wrote |-> w, panic |-> FALSE]
Panic(st, d) == [state |-> st, data |-> d, wrote |-> <<>>, panic |-> TRUE]

-----------------------------------------------------------------------------
(* StateData: the pending link references and the next reference index *)

LinkReferenceDefinition(index, target, colour) ==
    [colour |-> colour, index |-> index, target |-> target]

\* StateData::default
StateDataDefault == [pending_link_definitions |-> <<>>, next_link |-> 1]

\* StateData::add_link: buffers the reference under the next index; returns
\* the new data, the index given is d.next_link
add_link(d, target, colour) ==
    [pending_link_definitions |->
         Append(d.pending_link_definitions,
                LinkReferenceDefinition(d.next_link, target, colour)),
     next_link |-> d.next_link + 1]

\* StateData::take_links: the data without pending references; the references
\* taken are d.pending_link_definitions
take_links(d) == [d EXCEPT !.pending_link_definitions = <<>>]

\* write_link_refs(writer, environment, capabilities, links): one reference
\* line "[index]: target" per link, in the order of the list
RECURSIVE write_link_refs(_)
write_link_refs(links) ==
    IF links = <<>> THEN <<>>
    ELSE <<Tok("[", 1, fg(StyleNew, links[1].colour))>>
         \o write_styled(fg(StyleNew, links[1].colour), Dec(links[1].index))
         \o <<Tok("]:", 1, fg(StyleNew, links[1].colour)),
              Tok(links[1].target, 1, fg(StyleNew, links[1].colour))>>
         \o NL
         \o write_link_refs(Tail(links))

-----------------------------------------------------------------------------
(* Block starts shared by the containers *)

\* write_start_heading(writer, capabilities, style, level): the heading
\* glyphs, then inline text in the heading style
write_start_heading_wrote(style, level) == <<Tok("heading", level, bold(fg(style, "Blue")))>>
write_start_heading(style, level) == InlineText(0, bold(fg(style, "Blue")))

\* write_start_code_block(writer, settings, indent, style, kind, theme): the
\* opening border at the indent and the indent of the first line; a
\* HighlightBlock when a highlighter is available for the block (hl), else a
\* LiteralBlock
write_start_code_block_wrote(indent) ==
    write_indent(indent) \o write_border(settings.columns) \o write_indent(indent)
write_start_code_block(indent, style, hl) ==
    IF hl THEN HighlightBlock(indent) ELSE LiteralBlock(indent, fg(style, "Yellow"))

\* the margin line of a block start: written unless margin_before is NoMargin
MarginUnlessNoMargin(attrs) == IF attrs.margin_before # "NoMargin" THEN NL ELSE <<>>
\* the margin line of an Html block: written only when margin_before is Margin
MarginIfMargin(attrs) == IF attrs.margin_before = "Margin" THEN NL ELSE <<>>

-----------------------------------------------------------------------------
(* write_event: top level items *)

TopLevel_Start_Paragraph(attrs, d, e) ==
    Ok(current(stack_onto(TopLevelAttrs("Margin")), InlineText(0, StyleNew)),
       d, MarginUnlessNoMargin(attrs))

\* Start(Heading) at top level that writes the pending references and keeps them
TopLevel_Start_Heading_KeepLinks(attrs, d, e) ==
    Ok(current(stack_onto(TopLevelAttrs("Margin")), write_start_heading(StyleNew, e.n)),
       d,
       write_link_refs(d.pending_link_definitions)
           \o MarginUnlessNoMargin(attrs)
           \o write_mark
           \o write_start_heading_wrote(StyleNew, e.n))

\* Start(Heading) at top level that writes the margin line before the references
TopLevel_Start_Heading_MarginFirst(attrs, d, e) ==
    Ok(current(stack_onto(TopLevelAttrs("Margin")), write_start_heading(StyleNew, e.n)),
       take_links(d),
       MarginUnlessNoMargin(attrs)
           \o write_link_refs(d.pending_link_definitions)
           \o write_mark
           \o write_start_heading_wrote(StyleNew, e.n))

TopLevel_Start_Heading(attrs, d, e) ==
    Ok(current(stack_onto(TopLevelAttrs("Margin")), write_start_heading(StyleNew, e.n)),
       take_links(d),
       write_link_refs(d.pending_link_definitions)
           \o MarginUnlessNoMargin(attrs)
           \o write_mark
           \o write_start_heading_wrote(StyleNew, e.n))

TopLevel_Start_BlockQuote(attrs, d, e) ==
    Ok(current(stack_onto(TopLevelAttrs("Margin")),
               without_margin_before(block_quote(StyledBlock("Margin", 0, StyleNew)))),
       d, MarginUnlessNoMargin(attrs))

TopLevel_Rule(attrs, d, e) ==
    Ok(St(<<>>, TopLevelAttrs("Margin")), d,
       MarginUnlessNoMargin(attrs) \o write_rule(settings.columns) \o NL)

TopLevel_Start_CodeBlock(attrs, d, e) ==
    Ok(current(stack_onto(TopLevelAttrs("Margin")),
               write_start_code_block(0, StyleNew, e.hl)),
       d, MarginUnlessNoMargin(attrs) \o write_start_code_block_wrote(0))

TopLevel_Start_List(attrs, d, e) ==
    Ok(current(stack_onto(TopLevelAttrs("Margin")),
               ListItem(ListKind(e.n), ListNo(e.n), "StartItem", 0, StyleNew)),
       d, MarginUnlessNoMargin(attrs))

\* an Html event that writes its margin line like the other blocks
TopLevel_Html_AnyMargin(attrs, d, e) ==
    Ok(St(<<>>, TopLevelAttrs("NoMarginForHtmlOnly")), d,
       MarginUnlessNoMargin(attrs) \o write_styled(fg(StyleNew, "Green"), e.s))

TopLevel_Html(attrs, d, e) ==
    Ok(St(<<>>, TopLevelAttrs("NoMarginForHtmlOnly")), d,
       MarginIfMargin(attrs) \o write_styled(fg(StyleNew, "Green"), e.s))

-----------------------------------------------------------------------------
(* write_event: nested blocks with style, e.g. paragraphs in quotes *)

StyledBlock_Start_Paragraph(stack, attrs, d, e) ==
    Ok(current(push(stack, with_margin_before(attrs)),
               InlineText(attrs.indent, attrs.style)),
       d, MarginUnlessNoMargin(attrs) \o write_indent(attrs.indent))

StyledBlock_Start_BlockQuote(stack, attrs, d, e) ==
    Ok(current(push(stack, with_margin_before(attrs)),
               block_quote(without_margin_before(attrs))),
       d, MarginUnlessNoMargin(attrs))

\* columns - indent is an unsigned subtraction: it aborts when indent > columns
StyledBlock_Rule(stack, attrs, d, e) ==
    IF attrs.indent > settings.columns THEN Panic(St(stack, attrs), d)
    ELSE Ok(current(stack, with_margin_before(attrs)), d,
            MarginUnlessNoMargin(attrs) \o write_indent(attrs.indent)
                \o write_rule(settings.columns - attrs.indent) \o NL)

StyledBlock_Start_Heading(stack, attrs, d, e) ==
    Ok(current(push(stack, with_margin_before(attrs)),
               write_start_heading(attrs.style, e.n)),
       d, MarginUnlessNoMargin(attrs) \o write_indent(attrs.indent)
              \o write_start_heading_wrote(attrs.style, e.n))

StyledBlock_Start_List(stack, attrs, d, e) ==
    Ok(current(push(stack, with_margin_before(attrs)),
               ListItem(ListKind(e.n), ListNo(e.n), "StartItem", attrs.indent, attrs.style)),
       d, MarginUnlessNoMargin(attrs))

StyledBlock_Start_CodeBlock(stack, attrs, d, e) ==
    Ok(current(push(stack, attrs),
               write_start_code_block(attrs.indent, attrs.style, e.hl)),
       d, MarginUnlessNoMargin(attrs) \o write_start_code_block_wrote(attrs.indent))

StyledBlock_Html(stack, attrs, d, e) ==
    Ok(current(stack, without_margin_for_html_only(attrs)), d,
       MarginIfMargin(attrs) \o write_indent(attrs.indent)
           \o write_styled(fg(attrs.style, "Green"), e.s))

-----------------------------------------------------------------------------
(* write_event: lists *)

\* an item marker with a dash for the bullet
ItemMarker_Dash(li) ==
    IF li.kind = "Unordered" THEN <<Tok("-", 1, StyleNew), Tok(" ", 1, StyleNew)>>
    ELSE write_styled(StyleNew, Pad2(li.no) \o <<".", " ">>)

\* the item marker: the bullet U+2022 and a space, or the number right-aligned in two columns
ItemMarker(li) ==
    IF li.kind = "Unordered" THEN <<Tok("bullet", 1, StyleNew), Tok(" ", 1, StyleNew)>>
    ELSE write_styled(StyleNew, Pad2(li.no) \o <<".", " ">>)

\* the indent the marker adds for the item's content
ItemIndent(li) == IF li.kind = "Unordered" THEN 2 ELSE 4

\* Start(Item) as a tag that pushes a frame of its own
ListItem_Start_Item_Pushing(stack, attrs, d, e) ==
    Ok(current(push(stack, attrs),
               ListItem(attrs.li.kind, attrs.li.no, "StartItem",
                        attrs.indent + ItemIndent(attrs.li), attrs.style)),
       d,
       (IF attrs.li.state = "ItemBlock" THEN NL ELSE <<>>)
           \o write_indent(attrs.indent) \o ItemMarker(attrs.li))

\* Start(Item) that writes the margin line after every item but the first
ListItem_Start_Item_MarginAfterText(stack, attrs, d, e) ==
    Ok(current(stack, ListItem(attrs.li.kind, attrs.li.no, "StartItem",
                               attrs.indent + ItemIndent(attrs.li), attrs.style)),
       d,
       (IF attrs.li.state # "StartItem" THEN NL ELSE <<>>)
           \o write_indent(attrs.indent) \o ItemMarker(attrs.li))

ListItem_Start_Item(stack, attrs, d, e) ==
    Ok(current(stack, ListItem(attrs.li.kind, attrs.li.no, "StartItem",
                               attrs.indent + ItemIndent(attrs.li), attrs.style)),
       d,
       (IF attrs.li.state = "ItemBlock" THEN NL ELSE <<>>)
           \o write_indent(attrs.indent) \o ItemMarker(attrs.li))

\* the frame pushed when a block starts inside an item: ListItem(kind, ItemBlock)
ItemBlockOf(attrs) == [attrs EXCEPT !.li.state = "ItemBlock"]

ListItem_Start_Paragraph(stack, attrs, d, e) ==
    Ok(current(push(stack, ItemBlockOf(attrs)), InlineText(attrs.indent, attrs.style)),
       d,
       IF attrs.li.state # "StartItem" THEN NL \o write_indent(attrs.indent) ELSE <<>>)

ListItem_Start_CodeBlock(stack, attrs, d, e) ==
    Ok(current(push(stack, ItemBlockOf(attrs)),
               write_start_code_block(attrs.indent, attrs.style, e.hl)),
       d, NL \o write_start_code_block_wrote(attrs.indent))

ListItem_Rule(stack, attrs, d, e) ==
    IF attrs.indent > settings.columns THEN Panic(St(stack, attrs), d)
    ELSE Ok(current(stack, ItemBlockOf(attrs)), d,
            NL \o write_indent(attrs.indent)
               \o write_rule(settings.columns - attrs.indent) \o NL)

ListItem_Start_Heading(stack, attrs, d, e) ==
    Ok(current(push(stack, ItemBlockOf(attrs)), write_start_heading(attrs.style, e.n)),
       d,
       (IF attrs.li.state # "StartItem" THEN NL \o write_indent(attrs.indent) ELSE <<>>)
           \o write_start_heading_wrote(attrs.style, e.n))

\* Start(List) in an item that keeps the nested list's kind in the pushed frame
ListItem_Start_List_NestedKind(stack, attrs, d, e) ==
    Ok(current(push(stack, ListItem(ListKind(e.n), ListNo(e.n), "ItemBlock",
                                    attrs.indent, attrs.style)),
               ListItem(ListKind(e.n), ListNo(e.n), "StartItem", attrs.indent, attrs.style)),
       d, NL)

ListItem_Start_List(stack, attrs, d, e) ==
    Ok(current(push(stack, ItemBlockOf(attrs)),
               ListItem(ListKind(e.n), ListNo(e.n), "StartItem", attrs.indent, attrs.style)),
       d, NL)

ListItem_Start_BlockQuote(stack, attrs, d, e) ==
    Ok(current(push(stack, ItemBlockOf(attrs)),
               block_quote(without_margin_before(
                   StyledBlock("NoMargin", attrs.indent, attrs.style)))),
       d, NL)

\* End(Item) that lowers the indent by the bullet's width for every kind of list
ListItem_End_Item_BulletWidth(stack, attrs, d, e) ==
    Ok(current(stack,
               ListItem(attrs.li.kind,
                        IF attrs.li.kind = "Unordered" THEN attrs.li.no ELSE attrs.li.no + 1,
                        attrs.li.state,
                        attrs.indent - 2,
                        attrs.style)),
       d,
       IF attrs.li.state # "ItemBlock" THEN NL ELSE <<>>)

ListItem_End_Item(stack, attrs, d, e) ==
    Ok(current(stack,
               ListItem(attrs.li.kind,
                        IF attrs.li.kind = "Unordered" THEN attrs.li.no ELSE attrs.li.no + 1,
                        attrs.li.state,
                        attrs.indent - ItemIndent(attrs.li),
                        attrs.style)),
       d,
       IF attrs.li.state # "ItemBlock" THEN NL ELSE <<>>)

-----------------------------------------------------------------------------
(* write_event: code blocks *)

EndsWithNewline(text) == Len(text) > 0 /\ text[Len(text)] = "\n"

\* position of the first line terminator of a non-empty text, 0 when it has none
RECURSIVE FirstNewline(_, _)
FirstNewline(text, i) ==
    IF i > Len(text) THEN 0
    ELSE IF text[i] = "\n" THEN i
    ELSE FirstNewline(text, i + 1)

\* syntect::util::LinesWithEndings: the lines of a text, each with its terminator
RECURSIVE LinesWithEndings(_)
LinesWithEndings(text) ==
    IF text = <<>> THEN <<>>
    ELSE LET p == FirstNewline(text, 1) IN
         IF p = 0 THEN <<text>>
         ELSE <<SubSeq(text, 1, p)>> \o LinesWithEndings(SubSeq(text, p + 1, Len(text)))

\* the loop of (LiteralBlock, Text): each line styled, the indent after a line
\* that ends with a line terminator
RECURSIVE LiteralLines(_, _)
LiteralLines(attrs, lines) ==
    IF lines = <<>> THEN <<>>
    ELSE write_styled(attrs.style, lines[1])
         \o (IF EndsWithNewline(lines[1]) THEN write_indent(attrs.indent) ELSE <<>>)
         \o LiteralLines(attrs, Tail(lines))

LiteralBlock_Text(stack, attrs, d, e) ==
    Ok(current(stack, attrs), d, LiteralLines(attrs, LinesWithEndings(e.s)))

LiteralBlock_End_CodeBlock(stack, attrs, d, e) ==
    Ok(pop(stack), d, write_border(settings.columns))

\* highlighting::write_as_ansi of one highlighted line: the characters of the
\* line in the colours of the theme
write_as_ansi(line) == write_styled(fg(StyleNew, "Theme"), line)

\* the loop of (HighlightBlock, Text): each line highlighted, the indent after
\* a line when the text of the event ends with a line terminator
RECURSIVE HighlightLines(_, _, _)
HighlightLines(attrs, text, lines) ==
    IF lines = <<>> THEN <<>>
    ELSE write_as_ansi(lines[1])
         \o (IF EndsWithNewline(text) THEN write_indent(attrs.indent) ELSE <<>>)
         \o HighlightLines(attrs, text, Tail(lines))

HighlightBlock_Text(stack, attrs, d, e) ==
    Ok(current(stack, attrs), d, HighlightLines(attrs, e.s, LinesWithEndings(e.s)))

\* End(CodeBlock) of a highlighted block that leaves the border out
HighlightBlock_End_CodeBlock_NoBorder(stack, attrs, d, e) == Ok(pop(stack), d, <<>>)

HighlightBlock_End_CodeBlock(stack, attrs, d, e) ==
    Ok(pop(stack), d, write_border(settings.columns))

-----------------------------------------------------------------------------
(* write_event: inline markup *)

\* Start(Emphasis) that sets italic instead of toggling it
Inline_Start_Emphasis_SetItalic(stack, attrs, d, e) ==
    Ok(current(push(stack, attrs), InlineLike(attrs, attrs.indent, italic(attrs.style))),
       d, <<>>)

Inline_Start_Emphasis(stack, attrs, d, e) ==
    Ok(current(push(stack, attrs),
               InlineLike(attrs, attrs.indent,
                          [attrs.style EXCEPT !.is_italic = ~attrs.style.is_italic])),
       d, <<>>)

Inline_End_Emphasis(stack, attrs, d, e) == Ok(pop(stack), d, <<>>)

\* Start(Strong) that toggles bold instead of setting it
Inline_Start_Strong_Toggle(stack, attrs, d, e) ==
    Ok(current(push(stack, attrs),
               InlineLike(attrs, attrs.indent,
                          [attrs.style EXCEPT !.is_bold = ~attrs.style.is_bold])),
       d, <<>>)

Inline_Start_Strong(stack, attrs, d, e) ==
    Ok(current(push(stack, attrs), InlineLike(attrs, attrs.indent, bold(attrs.style))),
       d, <<>>)

Inline_End_Strong(stack, attrs, d, e) == Ok(pop(stack), d, <<>>)

Inline_Start_Strikethrough(stack, attrs, d, e) ==
    Ok(current(push(stack, attrs),
               InlineLike(attrs, attrs.indent, strikethrough(attrs.style))),
       d, <<>>)

Inline_End_Strikethrough(stack, attrs, d, e) == Ok(pop(stack), d, <<>>)

Inline_Code(stack, attrs, d, e) ==
    Ok(current(stack, attrs), d, write_styled(fg(attrs.style, "Yellow"), e.s))

\* the checked (U+2611) or unchecked (U+2610) box and a space
ListItem_TaskListMarker(stack, attrs, d, e) ==
    Ok(current(stack, attrs), d,
       write_styled(attrs.style, <<IF e.n = 1 THEN "checked" ELSE "unchecked", " ">>))

Inline_SoftBreak(stack, attrs, d, e) ==
    Ok(current(stack, attrs), d, NL \o write_indent(attrs.indent))

\* a hard break written as an empty line
Inline_HardBreak_EmptyLine(stack, attrs, d, e) ==
    Ok(current(stack, attrs), d, NL \o NL \o write_indent(attrs.indent))

Inline_HardBreak(stack, attrs, d, e) ==
    Ok(current(stack, attrs), d, NL \o write_indent(attrs.indent))

\* the frame after fresh text in an item: ListItem(kind, ItemText)
ItemTextOf(attrs) == [attrs EXCEPT !.li.state = "ItemText"]

ItemBlock_Text(stack, attrs, d, e) ==
    Ok(current(stack, ItemTextOf(attrs)), d,
       write_indent(attrs.indent) \o write_styled(attrs.style, e.s))

Inline_Text(stack, attrs, d, e) ==
    Ok(current(stack, attrs), d, write_styled(attrs.style, e.s))

ItemBlock_Html(stack, attrs, d, e) ==
    Ok(current(stack, ItemTextOf(attrs)), d,
       write_indent(attrs.indent) \o write_styled(fg(attrs.style, "Green"), e.s))

Inline_Html(stack, attrs, d, e) ==
    Ok(current(stack, attrs), d, write_styled(fg(attrs.style, "Green"), e.s))

Inline_End_Paragraph(stack, attrs, d, e) == Ok(pop(stack), d, NL)

Inline_End_Heading(stack, attrs, d, e) == Ok(pop(stack), d, NL)

-----------------------------------------------------------------------------
(* write_event: links *)

\* osc8.set_link_url(writer, url, hostname) and osc8.clear_link(writer)
set_link_url(target) == <<Tok("set_link_url", 1, StyleNew)>>
clear_link == <<Tok("clear_link", 1, StyleNew)>>

\* the reference marker format!("[{}]", index)
RefMarker(index) == <<"[">> \o Dec(index) \o <<"]">>

\* e.res: the target of the link resolves to a URL (for an email link, the
\* mailto: URL parses); set_link_url(..).ok() turns a failed write into None
Inline_Start_Link(stack, attrs, d, e) ==
    LET native == settings.links = "OSC8" /\ e.res /\ sink = "ok"
        style == fg(attrs.style, "Blue")
    IN Ok(current(push(stack, attrs),
                  IF native THEN InlineLink(attrs.indent, style)
                  ELSE InlineText(attrs.indent, style)),
          d,
          IF native THEN set_link_url(e.target) ELSE <<>>)

\* End(Link) of a hyperlink that also buffers a reference
InlineLink_End_Link_Buffering(stack, attrs, d, e) ==
    Ok(pop(stack), add_link(d, e.target, "Blue"), clear_link)

InlineLink_End_Link(stack, attrs, d, e) == Ok(pop(stack), d, clear_link)

\* End(Link) of an autolink that buffers a reference like other links
InlineText_End_Autolink_Reference(stack, attrs, d, e) ==
    Ok(pop(stack), add_link(d, e.target, "Blue"),
       write_styled(fg(attrs.style, "Blue"), RefMarker(d.next_link)))

InlineText_End_Autolink(stack, attrs, d, e) == Ok(pop(stack), d, <<>>)

InlineText_End_Email(stack, attrs, d, e) == Ok(pop(stack), d, <<>>)

\* End(Link) that writes the marker of the first reference
InlineText_End_Link_FirstIndex(stack, attrs, d, e) ==
    Ok(pop(stack), add_link(d, e.target, "Blue"),
       write_styled(fg(attrs.style, "Blue"), RefMarker(1)))

InlineText_End_Link(stack, attrs, d, e) ==
    Ok(pop(stack), add_link(d, e.target, "Blue"),
       write_styled(fg(attrs.style, "Blue"), RefMarker(d.next_link)))

-----------------------------------------------------------------------------
(* write_event: images *)

\* terminology/iterm2/kitty write_inline_image
write_inline_image(target) == <<Tok("image", 1, StyleNew)>>

\* e.res: the image target resolves to a URL; e.img: the image capability
\* reads and renders the image (for kitty this needs the pixel size); for
\* iterm2 and kitty .ok() turns a failed write of the image into None
ImageRendered(e) ==
    /\ e.res
    /\ \/ settings.image = "Terminology"
       \/ settings.image = "ITerm2" /\ e.img /\ sink = "ok"
       \/ settings.image = "Kitty" /\ settings.pixels /\ e.img /\ sink = "ok"

\* an image that becomes a native hyperlink whenever it is not rendered
ImageAsLink_AnyImage(attrs, e) ==
    /\ e.res
    /\ attrs.sub # "InlineLink"
    /\ settings.links = "OSC8"

\* the image becomes a native hyperlink: no image capability, the target
\* resolves, not already inside a hyperlink, and a hyperlink capability
ImageAsLink(attrs, e) ==
    /\ settings.image = "None"
    /\ e.res
    /\ attrs.sub # "InlineLink"
    /\ settings.links = "OSC8"

Inline_Start_Image(stack, attrs, d, e) ==
    Ok(current(push(stack, attrs),
               IF ImageRendered(e) THEN RenderedImage
               ELSE IF ImageAsLink(attrs, e)
                    THEN InlineLink(attrs.indent, fg(attrs.style, "Purple"))
               ELSE InlineText(attrs.indent,
                               IF attrs.sub = "InlineLink" THEN attrs.style
                               ELSE fg(attrs.style, "Purple"))),
       d,
       IF ImageRendered(e) THEN write_inline_image(e.target)
       ELSE IF ImageAsLink(attrs, e) THEN set_link_url(e.target)
       ELSE <<>>)

RenderedImage_Text(stack, attrs, d, e) == Ok(St(stack, RenderedImage), d, <<>>)

RenderedImage_End_Image(stack, attrs, d, e) == Ok(pop(stack), d, <<>>)

Inline_End_Image(stack, attrs, d, e) ==
    IF attrs.sub = "InlineLink" THEN Ok(pop(stack), d, clear_link)
    ELSE Ok(pop(stack), add_link(d, e.target, "Purple"),
            write_styled(fg(attrs.style, "Purple"), RefMarker(d.next_link)))

-----------------------------------------------------------------------------
(* write_event: unconditional returns to previous states *)

Stacked_End_BlockQuote(stack, attrs, d, e) == Ok(pop(stack), d, <<>>)

Stacked_End_List(stack, attrs, d, e) == Ok(pop(stack), d, <<>>)

-----------------------------------------------------------------------------
(* Events (pulldown_cmark::Event).  Every event is a record of one shape:   *)
(*   t       Start, End, Text, Code, Html, SoftBreak, HardBreak, Rule,      *)
(*           TaskListMarker                                                 *)
(*   tag     the tag of Start and End                                       *)
(*   n       List: the start number (NoStart for an unordered list);        *)
(*           Heading: the level; TaskListMarker: 1 when checked             *)
(*   lt      Link: the link type                                            *)
(*   hl      CodeBlock: a highlighter is available for the block            *)
(*   res     Link, Image: the target resolves to a URL                      *)
(*   img     Image: the image capability reads and renders the image        *)
(*   target  Link, Image: the target                                        *)
(*   s       Text, Code, Html: the characters                               *)

Ev(t, tag, num, lt, hl, res, img, target, s) ==
    [n |-> num, target |-> target, hl |-> hl, s |-> s, res |-> res, img |-> img,
     t |-> t, tag |-> tag, lt |-> lt]

Start(tag) == Ev("Start", tag, 0, "-", FALSE, FALSE, FALSE, "-", <<>>)
Leaf(t, s) == Ev(t, "-", 0, "-", FALSE, FALSE, FALSE, "-", s)
\* End(tag) carries the tag of the Start it closes
EndOf(e) == [e EXCEPT !.t = "End"]
NoEvent == Leaf("-", <<>>)

IsStart(e, tag) == e.t = "Start" /\ e.tag = tag
IsEnd(e, tag) == e.t = "End" /\ e.tag = tag

-----------------------------------------------------------------------------
(* write_event: the match over (state, event), first matching arm first *)

Impossible(s, d, e) == Panic(s, d)

write_event(s, d, e) ==
    LET stack == s.stack
        cur == s.cur
        top == cur.k = "TopLevel"
        styled == cur.k = "StyledBlock"
        inline == cur.k = "Inline"
        item == inline /\ cur.sub = "ListItem"
    IN
    IF top /\ IsStart(e, "Paragraph") THEN TopLevel_Start_Paragraph(cur, d, e)
    ELSE IF top /\ IsStart(e, "Heading") THEN TopLevel_Start_Heading(cur, d, e)
    ELSE IF top /\ IsStart(e, "BlockQuote") THEN TopLevel_Start_BlockQuote(cur, d, e)
    ELSE IF top /\ e.t = "Rule" THEN TopLevel_Rule(cur, d, e)
    ELSE IF top /\ IsStart(e, "CodeBlock") THEN TopLevel_Start_CodeBlock(cur, d, e)
    ELSE IF top /\ IsStart(e, "List") THEN TopLevel_Start_List(cur, d, e)
    ELSE IF top /\ e.t = "Html" THEN TopLevel_Html(cur, d, e)
    ELSE IF top THEN Impossible(s, d, e)
    ELSE IF styled /\ IsStart(e, "Paragraph") THEN StyledBlock_Start_Paragraph(stack, cur, d, e)
    ELSE IF styled /\ IsStart(e, "BlockQuote") THEN StyledBlock_Start_BlockQuote(stack, cur, d, e)
    ELSE IF styled /\ e.t = "Rule" THEN StyledBlock_Rule(stack, cur, d, e)
    ELSE IF styled /\ IsStart(e, "Heading") THEN StyledBlock_Start_Heading(stack, cur, d, e)
    ELSE IF styled /\ IsStart(e, "List") THEN StyledBlock_Start_List(stack, cur, d, e)
    ELSE IF styled /\ IsStart(e, "CodeBlock") THEN StyledBlock_Start_CodeBlock(stack, cur, d, e)
    ELSE IF styled /\ e.t = "Html" THEN StyledBlock_Html(stack, cur, d, e)
    ELSE IF item /\ IsStart(e, "Item") THEN ListItem_Start_Item(stack, cur, d, e)
    ELSE IF item /\ IsStart(e, "Paragraph") THEN ListItem_Start_Paragraph(stack, cur, d, e)
    ELSE IF item /\ IsStart(e, "CodeBlock") THEN ListItem_Start_CodeBlock(stack, cur, d, e)
    ELSE IF item /\ e.t = "Rule" THEN ListItem_Rule(stack, cur, d, e)
    ELSE IF item /\ IsStart(e, "Heading") THEN ListItem_Start_Heading(stack, cur, d, e)
    ELSE IF item /\ IsStart(e, "List") THEN ListItem_Start_List(stack, cur, d, e)
    ELSE IF item /\ IsStart(e, "BlockQuote") THEN ListItem_Start_BlockQuote(stack, cur, d, e)
    ELSE IF item /\ IsEnd(e, "Item") THEN ListItem_End_Item(stack, cur, d, e)
    ELSE IF cur.k = "LiteralBlock" /\ e.t = "Text" THEN LiteralBlock_Text(stack, cur, d, e)
    ELSE IF cur.k = "LiteralBlock" /\ IsEnd(e, "CodeBlock")
        THEN LiteralBlock_End_CodeBlock(stack, cur, d, e)
    ELSE IF cur.k = "HighlightBlock" /\ e.t = "Text" THEN HighlightBlock_Text(stack, cur, d, e)
    ELSE IF cur.k = "HighlightBlock" /\ IsEnd(e, "CodeBlock")
        THEN HighlightBlock_End_CodeBlock(stack, cur, d, e)
    ELSE IF inline /\ IsStart(e, "Emphasis") THEN Inline_Start_Emphasis(stack, cur, d, e)
    ELSE IF inline /\ IsEnd(e, "Emphasis") THEN Inline_End_Emphasis(stack, cur, d, e)
    ELSE IF inline /\ IsStart(e, "Strong") THEN Inline_Start_Strong(stack, cur, d, e)
    ELSE IF inline /\ IsEnd(e, "Strong") THEN Inline_End_Strong(stack, cur, d, e)
    ELSE IF inline /\ IsStart(e, "Strikethrough")
        THEN Inline_Start_Strikethrough(stack, cur, d, e)
    ELSE IF inline /\ IsEnd(e, "Strikethrough") THEN Inline_End_Strikethrough(stack, cur, d, e)
    ELSE IF inline /\ e.t = "Code" THEN Inline_Code(stack, cur, d, e)
    ELSE IF item /\ e.t = "TaskListMarker" THEN ListItem_TaskListMarker(stack, cur, d, e)
    ELSE IF inline /\ e.t = "SoftBreak" THEN Inline_SoftBreak(stack, cur, d, e)
    ELSE IF inline /\ e.t = "HardBreak" THEN Inline_HardBreak(stack, cur, d, e)
    ELSE IF item /\ cur.li.state = "ItemBlock" /\ e.t = "Text"
        THEN ItemBlock_Text(stack, cur, d, e)
    ELSE IF inline /\ e.t = "Text" THEN Inline_Text(stack, cur, d, e)
    ELSE IF item /\ cur.li.state = "ItemBlock" /\ e.t = "Html"
        THEN ItemBlock_Html(stack, cur, d, e)
    ELSE IF inline /\ e.t = "Html" THEN Inline_Html(stack, cur, d, e)
    ELSE IF inline /\ IsEnd(e, "Paragraph") THEN Inline_End_Paragraph(stack, cur, d, e)
    ELSE IF inline /\ IsEnd(e, "Heading") THEN Inline_End_Heading(stack, cur, d, e)
    ELSE IF inline /\ IsStart(e, "Link") THEN Inline_Start_Link(stack, cur, d, e)
    ELSE IF inline /\ cur.sub = "InlineLink" /\ IsEnd(e, "Link")
        THEN InlineLink_End_Link(stack, cur, d, e)
    ELSE IF inline /\ cur.sub = "InlineText" /\ IsEnd(e, "Link") /\ e.lt = "Autolink"
        THEN InlineText_End_Autolink(stack, cur, d, e)
    ELSE IF inline /\ cur.sub = "InlineText" /\ IsEnd(e, "Link") /\ e.lt = "Email"
        THEN InlineText_End_Email(stack, cur, d, e)
    ELSE IF inline /\ cur.sub = "InlineText" /\ IsEnd(e, "Link")
        THEN InlineText_End_Link(stack, cur, d, e)
    ELSE IF inline /\ IsStart(e, "Image") THEN Inline_Start_Image(stack, cur, d, e)
    ELSE IF cur.k = "RenderedImage" /\ e.t = "Text" THEN RenderedImage_Text(stack, cur, d, e)
    ELSE IF cur.k = "RenderedImage" /\ IsEnd(e, "Image")
        THEN RenderedImage_End_Image(stack, cur, d, e)
    ELSE IF inline /\ IsEnd(e, "Image") THEN Inline_End_Image(stack, cur, d, e)
    ELSE IF IsEnd(e, "BlockQuote") THEN Stacked_End_BlockQuote(stack, cur, d, e)
    ELSE IF IsEnd(e, "List") THEN Stacked_End_List(stack, cur, d, e)
    ELSE Impossible(s, d, e)

\* a finish that writes the first pending link reference only
finish_wrote_First(d) ==
    IF d.pending_link_definitions = <<>> THEN <<>>
    ELSE write_link_refs(<<d.pending_link_definitions[1]>>)

\* finish in State::TopLevel: the pending link references are written
finish_wrote(d) == write_link_refs(d.pending_link_definitions)

-----------------------------------------------------------------------------
(* The parser (pulldown-cmark), as the environment of the renderer.         *)
(* An entry of `open` is the Start event of an open tag with what the       *)
(* parser knows about it and what was current in the renderer before it:    *)
(*   e       the Start event                                                *)
(*   tight   List, Item: the list is tight (its items hold inline content   *)
(*           directly, without Paragraph tags)                              *)
(*   items   List: the items closed so far                                  *)
(*   kids    the latest child: none, inline, break, block; open while a     *)
(*           child tag is open                                              *)
(*   first   the tag is the first child of its parent                       *)
(*   before  the renderer's current frame before the Start event            *)
(*   depth   the length of the renderer's stack before the Start event      *)
(*   pos     the length of the kept output after the Start event            *)

Entry(e, tight, first, before, depth, pos) ==
    [e |-> e, before |-> before, depth |-> depth, tag |-> e.tag, tight |-> tight,
     first |-> first, pos |-> pos, items |-> 0, kids |-> "none"]

NoEntry == Entry(NoEvent, FALSE, FALSE, TopLevelAttrs("NoMargin"), 0, 0)

Top == open[Len(open)]
Ctx == IF open = <<>> THEN "Doc" ELSE Top.tag
Kids == IF open = <<>> THEN "none" ELSE Top.kids

InlineTags == {"Emphasis", "Strong", "Strikethrough", "Link", "Image"}
BlockTags == {"Paragraph", "Heading", "BlockQuote", "CodeBlock", "List"}

\* block-level events are produced here
BlockCtx == Ctx \in {"Doc", "BlockQuote", "Item"}
\* inline events are produced here
InlineCtx ==
    \/ Ctx \in {"Paragraph", "Heading"} \cup InlineTags
    \/ Ctx = "Item" /\ Top.tight

LinkOpen == \E i \in 1..Len(open) : open[i].tag = "Link"

\* the events the parser can produce next
Allowed(e) ==
    IF e.t = "Start" THEN
        /\ Len(open) < limit.depth
        /\ Kids # "break"
        /\ IF e.tag = "Item" THEN Ctx = "List"
           ELSE IF e.tag = "Paragraph" THEN BlockCtx /\ ~(Ctx = "Item" /\ Top.tight)
           ELSE IF e.tag \in BlockTags THEN BlockCtx
           ELSE IF e.tag = "Link" THEN InlineCtx /\ ~LinkOpen
           ELSE InlineCtx
    ELSE IF e.t = "End" THEN
        /\ open # <<>>
        /\ e = EndOf(Top.e)
        /\ Kids # "break"
        /\ e.tag \in {"Paragraph", "Emphasis", "Strong", "Strikethrough"} => Kids = "inline"
        /\ e.tag = "List" => Top.items > 0
    ELSE IF e.t = "Text" THEN InlineCtx \/ Ctx = "CodeBlock"
    ELSE IF e.t = "Code" THEN InlineCtx
    ELSE IF e.t = "Html" THEN
        IF EndsWithNewline(e.s) THEN BlockCtx /\ Kids # "break" ELSE InlineCtx
    ELSE IF e.t \in {"SoftBreak", "HardBreak"} THEN InlineCtx /\ Kids = "inline"
    ELSE IF e.t = "Rule" THEN BlockCtx /\ Kids # "break"
    ELSE IF e.t = "TaskListMarker" THEN
        /\ Kids = "none"
        /\ \/ Ctx = "Item" /\ Top.tight
           \/ /\ Ctx = "Paragraph" /\ Top.first
              /\ Len(open) > 1 /\ open[Len(open) - 1].tag = "Item"
    ELSE FALSE

\* the latest child of the enclosing tag after event e
KidOf(e) ==
    IF e.t \in {"SoftBreak", "HardBreak"} THEN "break"
    ELSE IF e.t = "Rule" \/ (e.t = "Html" /\ EndsWithNewline(e.s)) THEN "block"
    ELSE IF e.t = "End" /\ e.tag \in BlockTags THEN "block"
    ELSE "inline"

WithKid(entries, kid) ==
    IF entries = <<>> THEN entries
    ELSE [entries EXCEPT ![Len(entries)].kids = kid]

\* `open` after event e; tight is the tightness of a list that starts
OpenAfter(e, tight, docLen) ==
    IF e.t = "Start" THEN
        Append(WithKid(open, "open"),
               Entry(e,
                     IF e.tag = "List" THEN tight
                     ELSE IF e.tag = "Item" THEN Top.tight
                     ELSE FALSE,
                     Kids = "none", state.cur, Len(state.stack), docLen))
    ELSE IF e.t = "End" THEN
        LET rest == SubSeq(open, 1, Len(open) - 1) IN
        IF e.tag = "Item" THEN [rest EXCEPT ![Len(rest)].items = @ + 1]
        ELSE WithKid(rest, KidOf(e))
    ELSE WithKid(open, KidOf(e))

-----------------------------------------------------------------------------
(* The sink's view of how the output ends: bol, the output is at the        *)
(* beginning of a line; blank, the number of blank lines it ends with       *)
(* (counted up to 2)                                                        *)

Invisible == {"set_link_url", "clear_link", "mark"}

RECURSIVE TrailAfter(_, _)
TrailAfter(tr, w) ==
    IF w = <<>> THEN tr
    ELSE TrailAfter(
             IF w[1].c \in Invisible THEN tr
             ELSE IF w[1].c = "\n" THEN
                 IF tr.bol THEN [bol |-> TRUE, blank |-> IF tr.blank < 2 THEN tr.blank + 1 ELSE 2]
                 ELSE [bol |-> TRUE, blank |-> 0]
             ELSE [bol |-> FALSE, blank |-> 0],
             Tail(w))

-----------------------------------------------------------------------------
(* Inputs *)

HeadingLevels == {1}
ListStarts == {NoStart, 1}
HighListStarts == {9, 99}
LinkTypes == {"Inline", "Autolink", "Email"}
Targets == IF rec THEN {"u", "v"} ELSE {"u"}
InlineTexts == IF rec THEN {<<"x">>, <<"y">>} ELSE {<<"x">>}
CodeChars == {"a", "\n"}
CodeChunks == UNION {[1..k -> CodeChars] : k \in 1..MaxChunk}

\* one terminal per way a link or an image is rendered
SomeSettings ==
    {[columns |-> 80, links |-> "None", image |-> "None", pixels |-> FALSE],
     [columns |-> 80, links |-> "OSC8", image |-> "None", pixels |-> FALSE],
     [columns |-> 80, links |-> "None", image |-> "ITerm2", pixels |-> FALSE]}
\* terminals with and without hyperlinks, with an image capability (iterm2,
\* or kitty on a terminal that does not tell its pixel size) and without
ImageSettings ==
    {[columns |-> 80, links |-> l, image |-> i, pixels |-> FALSE] :
        l \in {"None", "OSC8"}, i \in {"None", "ITerm2", "Kitty"}}
\* a terminal without hyperlink and image capabilities
PlainSettings == [columns |-> 80, links |-> "None", image |-> "None", pixels |-> FALSE]

\* whether the resolution of a target, and the rendering of an image, are
\* read at all under the settings: where they are not, one value stands for both
ResChoices(tag) ==
    IF settings.links = "OSC8" \/ (tag = "Image" /\ settings.image # "None")
    THEN BOOLEAN ELSE {TRUE}
ImgChoices ==
    IF settings.image = "ITerm2" \/ (settings.image = "Kitty" /\ settings.pixels)
    THEN BOOLEAN ELSE {TRUE}

-----------------------------------------------------------------------------
(* Initial state: State::default() and StateData::default() *)

\* a render before its first event
NewRender(d, ph) ==
    [doc |-> d, i |-> 0, state |-> St(<<>>, TopLevelAttrs("NoMargin")),
     data |-> StateDataDefault, out |-> <<>>, phase |-> ph]
NoOther == NewRender(0, "none")

\* no call of write_inline_image, no Resource
NoKitty == [bytes |-> 0, dim |-> FALSE, pc |-> "none", i |-> 0, header |-> <<>>, out |-> <<>>]
NoResource ==
    [reference |-> <<>>, base_dir |-> <<>>, pc |-> "none",
     res |-> [k |-> "-", at |-> <<>>],
     file |-> [open |-> "-", read |-> "-", contents |-> <<>>],
     io |-> <<>>,
     result |-> [ok |-> FALSE, kind |-> "-", bytes |-> <<>>]]

InitWith(keep, settingsSet, maxEvents, maxDepth) ==
    /\ kitty = NoKitty
    /\ resource = NoResource
    /\ state = St(<<>>, TopLevelAttrs("NoMargin"))
    /\ data = StateDataDefault
    /\ settings \in settingsSet
    /\ open = <<>>
    /\ last = NoEvent
    /\ closed = NoEntry
    /\ wrote = <<>>
    /\ doc = <<>>
    /\ stream = <<>>
    /\ rec = keep
    /\ phase = "run"
    /\ sink = "ok"
    /\ n = 0
    /\ pushes = 0
    /\ pops = 0
    /\ trail = [bol |-> TRUE, blank |-> 0]
    /\ limit = [events |-> maxEvents, depth |-> maxDepth]
    /\ other = NoOther

-----------------------------------------------------------------------------
(* One write_event call with the next event of the parser *)

\* a call that writes w returns the I/O error of the sink (`?` on the write)
SinkError(w) == sink = "broken" /\ w # <<>>

\* the renderer is running and the parser has events left
Running == phase = "run" /\ n < limit.events

Feed(e, tight) ==
    /\ Allowed(e)
    /\ \E r \in {write_event(state, data, e)} :
       /\ last' = e
       /\ n' = n + 1
       /\ stream' = IF rec THEN Append(stream, e) ELSE stream
       /\ UNCHANGED <<settings, rec, limit, sink, other, kitty, resource>>
       /\ IF r.panic
          THEN /\ phase' = "panicked"
               /\ wrote' = <<>>
               /\ UNCHANGED <<state, data, open, closed, doc, pushes, pops, trail>>
          ELSE IF SinkError(r.wrote)
          THEN /\ phase' = "failed"
               /\ wrote' = <<>>
               /\ UNCHANGED <<state, data, open, closed, doc, pushes, pops, trail>>
          ELSE /\ phase' = phase
               /\ state' = r.state
               /\ data' = r.data
               /\ wrote' = r.wrote
               /\ doc' = IF rec THEN doc \o r.wrote ELSE doc
               /\ trail' = TrailAfter(trail, r.wrote)
               /\ pushes' = IF Len(r.state.stack) > Len(state.stack) THEN pushes + 1 ELSE pushes
               /\ pops' = IF Len(r.state.stack) < Len(state.stack) THEN pops + 1 ELSE pops
               /\ open' = OpenAfter(e, tight, IF rec THEN Len(doc) + Len(r.wrote) ELSE 0)
               /\ closed' = IF e.t = "End" THEN Top ELSE NoEntry

\* Start(tag) of a tag without payload
StartTag(tag) == Running /\ Feed(Start(tag), FALSE)
StartHeading == \E lv \in HeadingLevels : Running /\ Feed([Start("Heading") EXCEPT !.n = lv], FALSE)
StartCodeBlock == \E hl \in BOOLEAN : Running /\ Feed([Start("CodeBlock") EXCEPT !.hl = hl], FALSE)
StartList ==
    \E st \in ListStarts, tight \in BOOLEAN : Running /\ Feed([Start("List") EXCEPT !.n = st], tight)
StartListHigh ==
    \E st \in HighListStarts, tight \in BOOLEAN : Running /\ Feed([Start("List") EXCEPT !.n = st], tight)
StartLink ==
    \E lt \in LinkTypes, res \in ResChoices("Link"), target \in Targets :
        Running /\ Feed([Start("Link") EXCEPT !.lt = lt, !.res = res, !.target = target], FALSE)
StartImage ==
    \E res \in ResChoices("Image"), img \in ImgChoices, target \in Targets :
        Running /\ Feed([Start("Image") EXCEPT !.res = res, !.img = img, !.target = target], FALSE)

\* End(tag) of the innermost open tag
EndTag(tag) == open # <<>> /\ Top.tag = tag /\ Running /\ Feed(EndOf(Top.e), FALSE)
\* the end of a block quote that has at least one child
EndNonEmptyBlockQuote == Kids # "none" /\ EndTag("BlockQuote")

Text ==
    \E s \in (IF Ctx = "CodeBlock" THEN CodeChunks ELSE InlineTexts) : Running /\ Feed(Leaf("Text", s), FALSE)
Code == Running /\ Feed(Leaf("Code", <<"c">>), FALSE)
Html == \E s \in {<<"h">>, <<"h", "\n">>} : Running /\ Feed(Leaf("Html", s), FALSE)
SoftBreak == Running /\ Feed(Leaf("SoftBreak", <<>>), FALSE)
HardBreak == Running /\ Feed(Leaf("HardBreak", <<>>), FALSE)
Rule == Running /\ Feed(Leaf("Rule", <<>>), FALSE)
TaskListMarker ==
    \E checked \in {0, 1} : Running /\ Feed([Leaf("TaskListMarker", <<>>) EXCEPT !.n = checked], FALSE)

\* finish(writer, settings, environment, state, data)
finish ==
    /\ phase = "run"
    /\ last' = NoEvent
    /\ closed' = NoEntry
    /\ UNCHANGED <<state, settings, open, stream, rec, n, pushes, pops, limit, sink, other, kitty, resource>>
    /\ IF state.cur.k = "TopLevel" /\ SinkError(finish_wrote(data))
       THEN /\ phase' = "failed"
            /\ wrote' = <<>>
            /\ UNCHANGED <<data, doc, trail>>
       ELSE IF state.cur.k = "TopLevel"
       THEN /\ phase' = "finished"
            /\ wrote' = finish_wrote(data)
            /\ doc' = IF rec THEN doc \o finish_wrote(data) ELSE doc
            /\ trail' = TrailAfter(trail, finish_wrote(data))
            /\ data' = take_links(data)
       ELSE /\ phase' = "panicked"
            /\ wrote' = <<>>
            /\ UNCHANGED <<data, doc, trail>>

\* finish, called when the parser has no more events
Finish == open = <<>> /\ finish
\* finish, called before the parser has closed every tag
FinishEarly == open # <<>> /\ finish

\* the sink starts to fail: from now on every write to it returns an error
SinkBreaks ==
    /\ Running
    /\ sink = "ok"
    /\ sink' = "broken"
    /\ UNCHANGED <<state, data, settings, open, last, closed, wrote, doc, stream, rec,
                   phase, n, pushes, pops, trail, limit, other, kitty, resource>>

\* the documents of the second render: a paragraph with a link, a heading
\* with an image
OtherDocs ==
    <<<<Start("Paragraph"), [Start("Link") EXCEPT !.lt = "Inline", !.target = "u"],
        Leaf("Text", <<"x">>), EndOf([Start("Link") EXCEPT !.lt = "Inline", !.target = "u"]),
        EndOf(Start("Paragraph"))>>,
      <<[Start("Heading") EXCEPT !.n = 1], [Start("Image") EXCEPT !.target = "v"],
        EndOf([Start("Image") EXCEPT !.target = "v"]), EndOf([Start("Heading") EXCEPT !.n = 1])>>>>

\* a second render begins, on its own writer
OtherStarts ==
    \E d \in 1..Len(OtherDocs) :
        /\ phase = "run" /\ other.phase = "none"
        /\ other' = NewRender(d, "run")
        /\ UNCHANGED <<state, data, settings, open, last, closed, wrote, doc, stream, rec,
                       phase, sink, n, pushes, pops, trail, limit, kitty, resource>>

\* a step of the second render that passes the data of the first render to
\* write_event
OtherStep_SharedData ==
    /\ other.phase = "run"
    /\ IF other.i < Len(OtherDocs[other.doc])
       THEN \E r \in {write_event(other.state, data, OtherDocs[other.doc][other.i + 1])} :
               other' = [other EXCEPT !.i = @ + 1, !.state = r.state, !.data = r.data,
                                      !.out = @ \o r.wrote,
                                      !.phase = IF r.panic THEN "panicked" ELSE @]
       ELSE other' = [other EXCEPT !.phase = "finished", !.out = @ \o finish_wrote(data),
                                   !.data = take_links(data)]
    /\ UNCHANGED <<state, data, settings, open, last, closed, wrote, doc, stream, rec,
                   phase, sink, n, pushes, pops, trail, limit, kitty, resource>>

\* the next call of the second render: write_event with its next event, or
\* finish after its last event, on its own State and StateData
OtherStep ==
    /\ other.phase = "run"
    /\ IF other.i < Len(OtherDocs[other.doc])
       THEN \E r \in {write_event(other.state, other.data, OtherDocs[other.doc][other.i + 1])} :
               other' = [other EXCEPT !.i = @ + 1, !.state = r.state, !.data = r.data,
                                      !.out = @ \o r.wrote,
                                      !.phase = IF r.panic THEN "panicked" ELSE @]
       ELSE other' = [other EXCEPT !.phase = "finished", !.out = @ \o finish_wrote(other.data),
                                   !.data = take_links(other.data)]
    /\ UNCHANGED <<state, data, settings, open, last, closed, wrote, doc, stream, rec,
                   phase, sink, n, pushes, pops, trail, limit, kitty, resource>>

\* the tags of Start and End events
Tags == BlockTags \cup InlineTags \cup {"Item"}

\* write_event called with an End(tag) although tag is not the innermost open
\* tag (a stream that is not well nested); the parser side has nothing to say
\* about what follows, so the document stops there
MismatchedEnd ==
    \E tag \in Tags :
        /\ Running
        /\ Ctx # tag
        /\ \E r \in {write_event(state, data, EndOf([Start(tag) EXCEPT !.lt = "Inline"]))} :
           /\ last' = EndOf([Start(tag) EXCEPT !.lt = "Inline"])
           /\ n' = n + 1
           /\ closed' = NoEntry
           /\ UNCHANGED <<settings, open, stream, rec, limit, pushes, sink, other, kitty, resource>>
           /\ IF r.panic
              THEN /\ phase' = "panicked"
                   /\ wrote' = <<>>
                   /\ UNCHANGED <<state, data, doc, pops, trail>>
              ELSE /\ phase' = "misnested"
                   /\ state' = r.state
                   /\ data' = r.data
                   /\ wrote' = r.wrote
                   /\ doc' = IF rec THEN doc \o r.wrote ELSE doc
                   /\ trail' = TrailAfter(trail, r.wrote)
                   /\ pops' = IF Len(r.state.stack) < Len(state.stack) THEN pops + 1 ELSE pops

\* every tag, with text
Next ==
    \/ StartTag("Paragraph") \/ StartHeading \/ StartTag("BlockQuote") \/ StartCodeBlock
    \/ StartList \/ StartTag("Item") \/ StartTag("Emphasis") \/ StartTag("Strong") \/ StartTag("Strikethrough")
    \/ StartLink \/ StartImage
    \/ EndTag("Paragraph") \/ EndTag("Heading") \/ EndTag("BlockQuote") \/ EndTag("CodeBlock") \/ EndTag("List")
    \/ EndTag("Item") \/ EndTag("Emphasis") \/ EndTag("Strong") \/ EndTag("Strikethrough") \/ EndTag("Link") \/ EndTag("Image")
    \/ Text \/ Code

Init == InitWith(FALSE, SomeSettings, MaxEvents, MaxDepth)

Spec == Init /\ [][Next]_vars

\* documents of blocks: paragraphs, headings, quotes with at least one child,
\* rules, code blocks and lists, with text and code spans, on a terminal
\* without hyperlink and image capabilities
NextBlocks ==
    \/ StartTag("Paragraph") \/ StartHeading \/ StartTag("BlockQuote") \/ StartCodeBlock
    \/ StartList \/ StartListHigh \/ StartTag("Item")
    \/ EndTag("Paragraph") \/ EndTag("Heading") \/ EndNonEmptyBlockQuote \/ EndTag("CodeBlock") \/ EndTag("List")
    \/ EndTag("Item")
    \/ Text \/ Code \/ Rule

InitBlocks == InitWith(FALSE, {PlainSettings}, MaxBlockEvents, MaxBlockDepth)

SpecBlocks == InitBlocks /\ [][NextBlocks]_vars

\* lists of items that hold text, on a terminal without capabilities; the
\* events and the output are kept
NextList == StartList \/ StartTag("Item") \/ EndTag("Item") \/ EndTag("List") \/ Text

InitList == InitWith(TRUE, {PlainSettings}, MaxListEvents, MaxListDepth)

SpecList == InitList /\ [][NextList]_vars

\* paragraphs and headings with links and images, to the end of the document
NextLinks ==
    \/ StartTag("Paragraph") \/ StartHeading \/ StartLink \/ StartImage
    \/ EndTag("Paragraph") \/ EndTag("Heading") \/ EndTag("Link") \/ EndTag("Image")
    \/ Text \/ Finish

InitLinks == InitWith(FALSE, SomeSettings, MaxLinkEvents, MaxLinkDepth)

SpecLinks == InitLinks /\ [][NextLinks]_vars

\* paragraphs and headings with links and images on a terminal without
\* capabilities, to the end of the document; the events are kept
NextRefs ==
    \/ StartTag("Paragraph") \/ StartHeading \/ StartLink \/ StartImage
    \/ EndTag("Paragraph") \/ EndTag("Heading") \/ EndTag("Link") \/ EndTag("Image")
    \/ Finish

InitRefs == InitWith(TRUE, {PlainSettings}, MaxRefEvents, MaxRefDepth)

SpecRefs == InitRefs /\ [][NextRefs]_vars

\* inline markup in paragraphs and headings
NextInline ==
    \/ StartTag("Paragraph") \/ StartHeading
    \/ StartTag("Emphasis") \/ StartTag("Strong") \/ StartTag("Strikethrough") \/ StartLink \/ StartImage
    \/ EndTag("Paragraph") \/ EndTag("Heading")
    \/ EndTag("Emphasis") \/ EndTag("Strong") \/ EndTag("Strikethrough") \/ EndTag("Link") \/ EndTag("Image")
    \/ Text

InitInline == InitWith(FALSE, SomeSettings, MaxInlineEvents, MaxInlineDepth)

SpecInline == InitInline /\ [][NextInline]_vars

\* code blocks at the top level and in a block quote, their text in chunks;
\* the events and the output are kept
NextChunks ==
    \/ StartTag("BlockQuote") \/ StartCodeBlock \/ EndNonEmptyBlockQuote \/ EndTag("CodeBlock") \/ Text

InitChunks == InitWith(TRUE, {PlainSettings}, MaxChunkEvents, MaxChunkDepth)

SpecChunks == InitChunks /\ [][NextChunks]_vars

\* every tag with text, and one End that closes a tag other than the innermost
NextMismatch == Next \/ MismatchedEnd

InitMismatch == InitWith(FALSE, SomeSettings, MaxMismatchEvents, MaxMismatchDepth)

SpecMismatch == InitMismatch /\ [][NextMismatch]_vars

\* every event the parser produces, in every place where it produces it
NextTotal == Next \/ Html \/ SoftBreak \/ HardBreak \/ Rule \/ TaskListMarker

SpecTotal == InitWith(FALSE, SomeSettings, MaxTotalEvents, MaxTotalDepth) /\ [][NextTotal]_vars

\* paragraphs, headings and quotes with links and images; finish at any point
NextFinish ==
    \/ StartTag("Paragraph") \/ StartHeading \/ StartTag("BlockQuote") \/ StartLink \/ StartImage
    \/ EndTag("Paragraph") \/ EndTag("Heading") \/ EndTag("BlockQuote") \/ EndTag("Link") \/ EndTag("Image")
    \/ Text \/ Finish \/ FinishEarly

SpecFinish == InitWith(FALSE, SomeSettings, MaxFinishEvents, MaxFinishDepth) /\ [][NextFinish]_vars

\* paragraphs with links, images and text, on a sink that may start to fail
NextSink ==
    \/ StartTag("Paragraph") \/ StartLink \/ StartImage
    \/ EndTag("Paragraph") \/ EndTag("Link") \/ EndTag("Image")
    \/ Text \/ Finish \/ SinkBreaks

SpecSink == InitWith(FALSE, SomeSettings, MaxSinkEvents, MaxSinkDepth) /\ [][NextSink]_vars

\* paragraphs with images, links, emphasis, code and text
NextImage ==
    \/ StartTag("Paragraph") \/ StartImage \/ StartLink \/ StartTag("Emphasis")
    \/ EndTag("Paragraph") \/ EndTag("Image") \/ EndTag("Link") \/ EndTag("Emphasis")
    \/ Text \/ Code

SpecImage == InitWith(FALSE, ImageSettings, MaxImageEvents, MaxImageDepth) /\ [][NextImage]_vars

\* two renders, their calls interleaved in any order: the first of any
\* document of paragraphs and headings with links and images, the second of
\* one of OtherDocs
NextTwo ==
    \/ StartTag("Paragraph") \/ StartHeading \/ StartLink \/ StartImage
    \/ EndTag("Paragraph") \/ EndTag("Heading") \/ EndTag("Link") \/ EndTag("Image")
    \/ Finish \/ OtherStarts \/ OtherStep

SpecTwo == InitWith(TRUE, {PlainSettings}, MaxTwoEvents, MaxTwoDepth) /\ [][NextTwo]_vars

\* HTML among paragraphs, headings, quotes, rules, code blocks and lists
NextHtml ==
    \/ Html \/ Rule \/ Text
    \/ StartTag("Paragraph") \/ StartHeading \/ StartTag("BlockQuote") \/ StartCodeBlock
    \/ StartList \/ StartTag("Item")
    \/ EndTag("Paragraph") \/ EndTag("Heading") \/ EndTag("BlockQuote") \/ EndTag("CodeBlock")
    \/ EndTag("List") \/ EndTag("Item")

SpecHtml == InitWith(TRUE, {PlainSettings}, MaxHtmlEvents, MaxHtmlDepth) /\ [][NextHtml]_vars

-----------------------------------------------------------------------------
(* Properties *)

\* the tags of `open` that have a frame of their own on the renderer's stack
Framed == {i \in 1..Len(open) : open[i].tag # "Item"}

\* C1: in a well-nested stream, when every tag is closed the state is
\* TopLevel again and as many frames were popped as were pushed; and after
\* every End(X) the indent of the current frame is the indent that was current
\* immediately before the matching Start(X).
C1_PushPopIndent ==
    phase = "run" =>
        /\ open = <<>> =>
               /\ state.cur.k = "TopLevel"
               /\ state.stack = <<>>
               /\ pushes = pops
        /\ last.t = "End" => state.cur.indent = closed.before.indent

\* an ordered item inside a block quote has ended: the indent went from the
\* quote's 4 to 8 and is 4 again
C1_Witness ==
    /\ phase = "run"
    /\ IsEnd(last, "Item")
    /\ closed.before.li.kind = "Ordered"
    /\ closed.before.indent = QuoteIndent
    /\ state.cur.indent = QuoteIndent

-----------------------------------------------------------------------------
(* What was written, as the sink sees it *)

\* the characters of a sequence of tokens
Chars(w) == [i \in 1..Len(w) |-> w[i].c]
\* the last k tokens
Suffix(w, k) == SubSeq(w, Len(w) - k + 1, Len(w))

\* the number of line terminators a sequence of tokens begins with
RECURSIVE LeadingNewlines(_)
LeadingNewlines(w) ==
    IF w = <<>> THEN 0
    ELSE IF w[1].c = "\n" THEN 1 + LeadingNewlines(Tail(w))
    ELSE 0

\* the number of tokens c in a sequence of tokens
Count(w, c) == Cardinality({i \in 1..Len(w) : w[i].c = c})

\* the last event started a block at the top level of the document
TopLevelBlockStarted ==
    \/ last.t = "Start" /\ last.tag \in BlockTags /\ Len(open) = 1
    \/ last.t = "Rule" /\ open = <<>>

\* C3 as stated: no blank line before the first top-level block and exactly
\* one blank line between two consecutive top-level blocks.  A block start
\* at the top level writes no line terminator before the first block and
\* exactly one before every later block, and that one is a blank line: the
\* block before it has ended its last line, and not with a blank line.
C3_Original ==
    phase = "run" =>
        /\ TopLevelBlockStarted => LeadingNewlines(wrote) = (IF n = 1 THEN 0 ELSE 1)
        /\ (open = <<>> /\ n > 0) => trail = [bol |-> TRUE, blank |-> 0]

\* the enclosing list of the innermost open item
ListOfItem == open[Len(open) - 1]

\* a number written right-aligned in two columns
RightAligned2(x) == IF x < 10 THEN <<" ">> \o Dec(x) ELSE Dec(x)
NumberMarker(x) == RightAligned2(x) \o <<".", " ">>

C9_OpenCloseOnce ==
    [][phase' = "run" =>
        /\ IsStart(last', "CodeBlock") =>
               /\ Count(wrote', "border") = 1
               /\ Len(state'.stack) = Len(state.stack) + 1
               /\ state'.cur.k \in {"LiteralBlock", "HighlightBlock"}
               /\ state'.cur.k = "HighlightBlock" <=> last'.hl
        /\ (last'.t = "Text" /\ Ctx = "CodeBlock") =>
               /\ Count(wrote', "border") = 0
               /\ state' = state
        /\ IsEnd(last', "CodeBlock") =>
               /\ Count(wrote', "border") = 1
               /\ pops' = pops + 1
               /\ Len(state'.stack) = Len(state.stack) - 1
               /\ state'.cur.k \notin {"LiteralBlock", "HighlightBlock"}]_vars

\* a highlighted code block without any Text event has ended inside a list item
C9_Witness ==
    /\ phase = "run"
    /\ IsEnd(last, "CodeBlock")
    /\ last.hl
    /\ closed.kids = "none"
    /\ Ctx = "Item"
    /\ state.cur.sub = "ListItem"

\* the events of a list with the items "x" and "y"
XYList ==
    <<[Start("List") EXCEPT !.n = NoStart]>>
    \o <<Start("Item"), Leaf("Text", <<"x">>), EndOf(Start("Item"))>>
    \o <<Start("Item"), Leaf("Text", <<"y">>), EndOf(Start("Item"))>>
    \o <<EndOf([Start("List") EXCEPT !.n = NoStart])>>

\* C4: the unordered top-level list of the items "x" and "y" is written as
\* "bullet x\nbullet y\n".  Each Start(Item) of an unordered list writes, at
\* the beginning of a line, the indent of the list and the bullet, and raises
\* the indent by 2; each End(Item) ends the line and lowers the indent by 2;
\* after the End(List) that closes the last open tag the state is TopLevel
\* with indent 0.
C4_UnorderedList ==
    [][phase' = "run" =>
        /\ stream' = XYList =>
               Chars(doc') = <<"bullet", " ", "x", "\n", "bullet", " ", "y", "\n">>
        /\ (IsStart(last', "Item") /\ state.cur.li.kind = "Unordered") =>
               /\ Len(wrote') >= 2
               /\ Chars(Suffix(wrote', 2)) = <<"bullet", " ">>
               /\ SubSeq(wrote', 1, Len(wrote') - 2) =
                      (IF wrote'[1].c = "\n" THEN NL ELSE <<>>) \o write_indent(state.cur.indent)
               /\ trail.bol \/ wrote'[1].c = "\n"
               /\ state'.cur.indent = state.cur.indent + 2
        /\ (IsEnd(last', "Item") /\ state.cur.li.kind = "Unordered") =>
               /\ trail'.bol
               /\ state'.cur.indent = state.cur.indent - 2
        /\ (IsEnd(last', "List") /\ open' = <<>>) =>
               /\ state'.cur.k = "TopLevel"
               /\ state'.cur.indent = 0]_vars

\* the list of "x" and "y" has been rendered
C4_Witness ==
    /\ phase = "run"
    /\ stream = XYList
    /\ state.cur.k = "TopLevel"
    /\ Len(doc) = 8

\* the event ends a link that is no autolink
EndsLink(e) == IsEnd(e, "Link") /\ e.lt = "Inline"
\* the event ends a link that is no autolink, or an image
EndsReference(e) == EndsLink(e) \/ IsEnd(e, "Image")

\* the links, and the references, that ended in the stream so far
LinksEnded == SelectSeq(stream, EndsLink)
ReferencesEnded == SelectSeq(stream, EndsReference)
HeadingSeen == \E i \in 1..Len(stream) : stream[i].tag = "Heading"

\* the characters of the reference lines of the references refs, numbered from 1
RECURSIVE ReferenceLines(_, _)
ReferenceLines(refs, index) ==
    IF refs = <<>> THEN <<>>
    ELSE <<"[">> \o Dec(index) \o <<"]:", refs[1].target, "\n">>
         \o ReferenceLines(Tail(refs), index + 1)

\* C6 as stated: without a hyperlink capability the first link that is no
\* autolink is followed by "[1]" and the next one by "[2]" (the k-th link by
\* "[k]"), and without a top-level heading finish writes the reference lines
\* of the buffered links in increasing index order, each once.
C6_Original ==
    /\ (phase = "run" /\ EndsLink(last)) => Chars(wrote) = RefMarker(Len(LinksEnded))
    /\ (phase = "finished" /\ ~HeadingSeen) => Chars(wrote) = ReferenceLines(LinksEnded, 1)

\* C6, amended: without hyperlink and image capabilities every link that is
\* no autolink, and every image, is followed by "[k]" where k - 1 references
\* (links and images) ended before it in the document: the first reference
\* by "[1]", the next by "[2]"; and without a top-level heading finish writes
\* the reference lines of all of them in increasing index order, each once.
C6_Markers ==
    /\ (phase = "run" /\ EndsReference(last)) =>
           Chars(wrote) = RefMarker(Len(ReferencesEnded))
    /\ (phase = "finished" /\ ~HeadingSeen) =>
           Chars(wrote) = ReferenceLines(ReferencesEnded, 1)

\* a document of two links with different targets and no heading has been finished
C6_Witness ==
    /\ phase = "finished"
    /\ ~HeadingSeen
    /\ Len(LinksEnded) = 2
    /\ Len(ReferencesEnded) = 2
    /\ LinksEnded[1].target # LinksEnded[2].target
    /\ Count(wrote, "]:") = 2

\* the characters of the reference lines of the pending references
RECURSIVE PendingLines(_)
PendingLines(links) ==
    IF links = <<>> THEN <<>>
    ELSE <<"[">> \o Dec(links[1].index) \o <<"]:", links[1].target, "\n">>
         \o PendingLines(Tail(links))

\* C7: the first reference index is 1; every step leaves the next index or
\* raises it by one, and raises it exactly when End(Link) or End(Image)
\* buffers a reference under that index and writes its marker; the pending
\* references carry the consecutive indices below the next index; they are
\* written, in order, each once, and cleared at Start(Heading) at top level
\* and in finish, and no other step writes a reference line or drops a
\* pending reference.
C7_Indices ==
    [][phase' # "panicked" =>
        LET links == data.pending_link_definitions
            links2 == data'.pending_link_definitions
            index == data.next_link
            drained == \/ IsStart(last', "Heading") /\ state.cur.k = "TopLevel"
                       \/ phase' = "finished"
        IN /\ n = 0 => index = 1
           /\ \A i \in 1..Len(links2) :
                  links2[i].index = data'.next_link - Len(links2) + i - 1
           /\ data'.next_link \in {index, index + 1}
           /\ data'.next_link = index + 1 =>
                  /\ IsEnd(last', "Link") \/ IsEnd(last', "Image")
                  /\ links2 = Append(links, links2[Len(links2)])
                  /\ links2[Len(links2)].target = last'.target
                  /\ Chars(wrote') = RefMarker(index)
           /\ drained =>
                  /\ links2 = <<>>
                  /\ data'.next_link = index
                  /\ Len(wrote') >= Len(PendingLines(links))
                  /\ Chars(SubSeq(wrote', 1, Len(PendingLines(links)))) = PendingLines(links)
                  /\ Count(wrote', "]:") = Len(links)
           /\ ~drained =>
                  /\ Count(wrote', "]:") = 0
                  /\ Len(links2) >= Len(links)
                  /\ SubSeq(links2, 1, Len(links)) = links]_vars

\* a reference was written at a heading, and the reference buffered after
\* it has the index 2
C7_Witness ==
    /\ phase = "run"
    /\ IsEnd(last, "Link") \/ IsEnd(last, "Image")
    /\ data.next_link = 3
    /\ Len(data.pending_link_definitions) = 1
    /\ data.pending_link_definitions[1].index = 2

\* every token written is bold, italic
AllBold(w, b) == \A i \in 1..Len(w) : w[i].style.is_bold = b
AllItalic(w, b) == \A i \in 1..Len(w) : w[i].style.is_italic = b

\* the enclosing tag of the innermost open tag
Outer == open[Len(open) - 1]

\* C8 as stated, for the text of a top-level paragraph: text inside
\* Emphasis and, in it, Strong is written bold and italic; text in the
\* Emphasis outside of the Strong is written italic and not bold; the End of
\* an inline span restores the style that was current before its Start.
C8_Original ==
    phase = "run" =>
        /\ (/\ last.t = "Text" /\ Ctx = "Strong" /\ Len(open) > 1
            /\ Outer.tag = "Emphasis" /\ open[1].tag = "Paragraph") =>
               AllBold(wrote, TRUE) /\ AllItalic(wrote, TRUE)
        /\ (/\ last.t = "Text" /\ Ctx = "Emphasis" /\ open[1].tag = "Paragraph"
            /\ \A i \in 1..Len(open) : open[i].tag # "Strong") =>
               AllBold(wrote, FALSE) /\ AllItalic(wrote, TRUE)
        /\ (last.t = "End" /\ last.tag \in InlineTags) => state.cur.style = closed.before.style

\* C8, amended: Start(Emphasis) toggles italic and Start(Strong) sets bold
\* in the style that is current, and changes nothing else.  Text inside
\* Emphasis and, in it, Strong is written bold, and italic exactly if the
\* style before Start(Emphasis) was not; text in the Emphasis outside of the
\* Strong is written bold exactly if the style before Start(Emphasis) was,
\* with italic toggled.  The End of an inline span (emphasis, strong,
\* strikethrough, link, image) restores the style that was current before
\* its Start.
C8_Styles ==
    phase = "run" =>
        /\ IsStart(last, "Emphasis") =>
               state.cur.style = [Top.before.style EXCEPT !.is_italic = ~@]
        /\ IsStart(last, "Strong") =>
               state.cur.style = [Top.before.style EXCEPT !.is_bold = TRUE]
        /\ (last.t = "Text" /\ Ctx = "Strong" /\ Len(open) > 1 /\ Outer.tag = "Emphasis") =>
               /\ AllBold(wrote, TRUE)
               /\ AllItalic(wrote, ~Outer.before.style.is_italic)
        /\ (last.t = "Text" /\ Ctx = "Emphasis") =>
               /\ AllBold(wrote, Top.before.style.is_bold)
               /\ AllItalic(wrote, ~Top.before.style.is_italic)
        /\ (last.t = "End" /\ last.tag \in InlineTags) => state.cur.style = closed.before.style

\* text in Strong in Emphasis in Emphasis was written, bold and not italic
C8_Witness ==
    /\ phase = "run"
    /\ last.t = "Text"
    /\ Ctx = "Strong"
    /\ Len(open) > 2
    /\ Outer.tag = "Emphasis"
    /\ open[Len(open) - 2].tag = "Emphasis"
    /\ wrote # <<>>
    /\ AllBold(wrote, TRUE)
    /\ AllItalic(wrote, FALSE)

\* the text of the Text events of the innermost open code block
RECURSIVE CodeText(_)
CodeText(events) ==
    IF events = <<>> \/ events[Len(events)].t # "Text" THEN <<>>
    ELSE CodeText(SubSeq(events, 1, Len(events) - 1)) \o events[Len(events)].s

\* C10 as stated: the output of the Text events of a code block, highlighted
\* or literal, at any indent, is the output of one Text event with the whole
\* text.
C10_Original ==
    (phase = "run" /\ Ctx = "CodeBlock" /\ last.t = "Text") =>
        SubSeq(doc, Top.pos + 1, Len(doc)) =
            write_event(state, data, Leaf("Text", CodeText(stream))).wrote


-----------------------------------------------------------------------------
(* C11: every End(X) event whose tag X is not the tag whose Start pushed    *)
(* the current frame makes write_event abort: it pops no frame and returns  *)
(* no state.  (phase "misnested" is a write_event call with such an End     *)
(* that returned a state.)                                                  *)

C11_Original == phase # "misnested"


-----------------------------------------------------------------------------
(* C12: write_event is total over the well-nested event streams of the      *)
(* parser: no (state, event) pair of such a stream reaches the "impossible  *)
(* event" panic.                                                            *)

C12_Original == phase # "panicked"


-----------------------------------------------------------------------------
(* C13: finish in state TopLevel writes every pending link reference and    *)
(* returns; finish in a Stacked state panics and writes nothing; and when   *)
(* every tag of the stream is closed the state is TopLevel.                 *)

\* a step that is a call of finish
FinishStep == phase = "run" /\ phase' # "run" /\ n' = n

C13_Finish ==
    /\ [][FinishStep =>
            IF state.cur.k = "TopLevel"
            THEN /\ phase' = "finished"
                 /\ Chars(wrote') = PendingLines(data.pending_link_definitions)
                 /\ data'.pending_link_definitions = <<>>
            ELSE /\ phase' = "panicked"
                 /\ wrote' = <<>>
                 /\ data' = data /\ doc' = doc]_vars
    /\ [](phase = "run" /\ open = <<>> => state.cur.k = "TopLevel" /\ state.stack = <<>>)
    /\ [](phase = "run" /\ open # <<>> => state.cur.k # "TopLevel")

\* finish has written the reference of a link of a quoted paragraph
C13_Witness ==
    /\ phase = "finished"
    /\ open = <<>>
    /\ Count(wrote, "]:") = 2
    /\ data.next_link = 3

\* finish was called inside a paragraph that holds a pending reference
C13_WitnessStacked ==
    /\ phase = "panicked"
    /\ last = NoEvent
    /\ open # <<>>
    /\ Len(data.pending_link_definitions) = 1

-----------------------------------------------------------------------------
(* C14: a write_event call during which a write to the sink fails returns   *)
(* the I/O error; in particular the write that begins a native hyperlink at *)
(* Start(Link) and the write of an inline image at Start(Image).            *)

\* the call of this step writes to the sink to begin a hyperlink or an image
WritesLinkOrImage ==
    /\ phase = "run" /\ n' = n + 1
    /\ state.cur.k = "Inline"
    /\ last'.res
    /\ \/ IsStart(last', "Link") /\ settings.links = "OSC8"
       \/ IsStart(last', "Image") /\ settings.image = "ITerm2" /\ last'.img

C14_Original == [][sink = "broken" /\ WritesLinkOrImage => phase' = "failed"]_vars

-----------------------------------------------------------------------------
(* C15: at Start(Image), when no image capability is configured or the      *)
(* configured one fails to render the image, the image is rendered like a   *)
(* link: a native hyperlink is begun if there is a hyperlink capability and *)
(* the target resolves, otherwise the image is text and End(Image) buffers  *)
(* a reference and writes its marker.  (Stated for an image that is not    *)
(* inside a native hyperlink: hyperlinks do not nest.)                      *)

C15_Original ==
    (/\ phase = "run" /\ IsStart(last, "Image") /\ ~ImageRendered(last)
     /\ state.stack[Len(state.stack)].sub # "InlineLink") =>
        IF settings.links = "OSC8" /\ last.res
        THEN state.cur.sub = "InlineLink" /\ Chars(wrote) = <<"set_link_url">>
        ELSE state.cur.sub = "InlineText" /\ wrote = <<>>

-----------------------------------------------------------------------------
(* C16: after a rendered inline image (state RenderedImage) every event of  *)
(* the alt text is swallowed: the call writes nothing, adds no reference    *)
(* and leaves the stack as it is; End(Image) pops one frame and writes      *)
(* nothing.                                                                 *)

C16_Original ==
    [][(phase = "run" /\ state.cur.k = "RenderedImage" /\ n' = n + 1) =>
          /\ phase' = "run"
          /\ wrote' = <<>>
          /\ data' = data
          /\ IF IsEnd(last', "Image")
             THEN state' = pop(state.stack)
             ELSE state' = state]_vars

-----------------------------------------------------------------------------
(* C17: in every inline state SoftBreak and HardBreak are rendered alike:   *)
(* each writes a line terminator and the indent of the current frame and    *)
(* returns the state and the data it was given, so that exchanging one for  *)
(* the other changes neither the output nor any later state.                *)

C17_Breaks ==
    /\ [](phase = "run" /\ state.cur.k = "Inline" =>
            LET soft == write_event(state, data, Leaf("SoftBreak", <<>>))
                hard == write_event(state, data, Leaf("HardBreak", <<>>))
            IN /\ soft = hard
               /\ ~soft.panic
               /\ soft.state = state /\ soft.data = data
               /\ soft.wrote = NL \o write_indent(state.cur.indent))
    /\ [][(phase = "run" /\ n' = n + 1 /\ last'.t \in {"SoftBreak", "HardBreak"}
           /\ state.cur.k = "Inline") =>
              /\ phase' = "run"
              /\ state' = state /\ data' = data
              /\ wrote' = NL \o write_indent(state.cur.indent)]_vars

\* a hard break in a paragraph of a block quote
C17_Witness ==
    /\ phase = "run"
    /\ last.t = "HardBreak"
    /\ state.cur.k = "Inline" /\ state.cur.indent = QuoteIndent
    /\ wrote = NL \o write_indent(QuoteIndent)

-----------------------------------------------------------------------------
(* C18: two renders whose write_event and finish calls are interleaved in   *)
(* any order, each with its own writer, State and StateData, give for each  *)
(* document the output and the state of that document rendered alone.       *)

\* the render of a sequence of events from the initial state, alone
RECURSIVE RenderEvents(_, _)
RenderEvents(r, events) ==
    IF events = <<>> THEN r
    ELSE LET w == write_event(r.state, r.data, events[1])
         IN RenderEvents([r EXCEPT !.state = w.state, !.data = w.data, !.out = @ \o w.wrote],
                         Tail(events))

RenderAlone(events, finished) ==
    LET r == RenderEvents(NewRender(0, "run"), events)
    IN IF finished
       THEN [r EXCEPT !.out = @ \o finish_wrote(r.data), !.data = take_links(r.data)]
       ELSE r

-----------------------------------------------------------------------------
(* C19: inside a block quote, after a child block has ended (paragraph,     *)
(* heading, list, rule, nested quote, code block) the StyledBlock frame     *)
(* that is current again has the margin flag Margin, so that the next child *)
(* is separated by one blank line.                                          *)

\* the last event ended a child block of a block quote
ChildOfQuoteEnded ==
    /\ phase = "run"
    /\ state.cur.k = "StyledBlock"
    /\ last.t = "Rule" \/ (last.t = "End" /\ last.tag \in BlockTags)

C19_Original == ChildOfQuoteEnded => state.cur.margin_before = "Margin"

-----------------------------------------------------------------------------
(* C20: at top level and in a block quote an Html event writes a line       *)
(* terminator before the HTML only when the margin flag is Margin, and sets *)
(* the flag to NoMarginForHtmlOnly; so an Html event that directly follows  *)
(* is written with no line terminator in between, while a paragraph,        *)
(* heading, quote, rule, code block or list that directly follows still     *)
(* writes the separating line terminator.                                   *)

\* the call of this step is made at top level or in a block quote
BlockLevelCall ==
    /\ phase = "run" /\ phase' = "run" /\ n' = n + 1
    /\ state.cur.k \in {"TopLevel", "StyledBlock"}

C20_HtmlMargin ==
    /\ [][BlockLevelCall /\ last'.t = "Html" =>
              /\ LeadingNewlines(wrote') = IF state.cur.margin_before = "Margin" THEN 1 ELSE 0
              /\ state'.cur = [state.cur EXCEPT !.margin_before = "NoMarginForHtmlOnly"]
              /\ state'.stack = state.stack]_vars
    /\ [][(/\ BlockLevelCall /\ last.t = "Html"
           /\ last'.t = "Rule" \/ (last'.t = "Start" /\ last'.tag \in BlockTags)) =>
              /\ state.cur.margin_before = "NoMarginForHtmlOnly"
              /\ LeadingNewlines(wrote') = 1]_vars
    /\ [][BlockLevelCall /\ last.t = "Html" /\ last'.t = "Html" =>
              LeadingNewlines(wrote') = 0]_vars

\* two Html events and then a paragraph, at top level
C20_Witness ==
    /\ phase = "run"
    /\ Len(stream) = 3
    /\ stream[1].t = "Html" /\ stream[2].t = "Html" /\ IsStart(stream[3], "Paragraph")
    /\ Chars(doc) = <<"h", "\n", "h", "\n", "\n">>


-----------------------------------------------------------------------------
(* C21: Start(Item) writes a margin line before the bullet only if the      *)
(* previous item of the same list ended with the item-progress marker       *)
(* ItemBlock (it had block content); the first item of every list, also of  *)
(* a list nested in an item that has block content, gets no margin line.    *)

\* the call of this step is write_event with Start(Item)
ItemStartStep == phase = "run" /\ phase' = "run" /\ n' = n + 1 /\ IsStart(last', "Item")

C21_ItemMargin ==
    /\ [][ItemStartStep =>
              /\ LeadingNewlines(wrote') = IF state.cur.li.state = "ItemBlock" THEN 1 ELSE 0
              /\ IF Top.items = 0
                 THEN state.cur.li.state = "StartItem" /\ LeadingNewlines(wrote') = 0
                 ELSE IsEnd(last, "Item")]_vars
    /\ [][(phase = "run" /\ phase' = "run" /\ n' = n + 1 /\ IsEnd(last', "Item")) =>
              state'.cur.li.state = state.cur.li.state]_vars

\* the second item of a list whose first item holds a paragraph
C21_Witness ==
    /\ phase = "run"
    /\ IsStart(last, "Item")
    /\ Len(open) = 2 /\ open[1].items = 1
    /\ LeadingNewlines(wrote) = 1

-----------------------------------------------------------------------------
(* C22: in a code block, highlighted or literal, every line of every Text   *)
(* chunk is followed by the indent of the block if and only if the line     *)
(* ends with a line terminator.                                             *)

\* what is written, as pairs of a character and the times it is written
Widths(w) == [i \in 1..Len(w) |-> <<w[i].c, w[i].w>>]

\* the lines, each followed by the indent if it ends with a line terminator
RECURSIVE IndentAfterLines(_, _)
IndentAfterLines(indent, lines) ==
    IF lines = <<>> THEN <<>>
    ELSE [i \in 1..Len(lines[1]) |-> <<lines[1][i], 1>>]
         \o (IF EndsWithNewline(lines[1]) /\ indent > 0 THEN <<<<" ", indent>>>> ELSE <<>>)
         \o IndentAfterLines(indent, Tail(lines))

C22_Original ==
    (phase = "run" /\ Ctx = "CodeBlock" /\ last.t = "Text") =>
        Widths(wrote) = IndentAfterLines(state.cur.indent, LinesWithEndings(last.s))

\* the same for the literal path alone
C22_Literal == state.cur.k = "LiteralBlock" => C22_Original

-----------------------------------------------------------------------------
(* C23: Start(Heading) at top level writes the pending link references and  *)
(* clears them, then the margin line if one is pending, then the heading    *)
(* mark; Start(Heading) in a block quote or a list item writes no mark and  *)
(* leaves the pending link references as they are.                          *)

\* the call of this step is write_event with Start(Heading)
HeadingStep == phase = "run" /\ phase' = "run" /\ n' = n + 1 /\ IsStart(last', "Heading")

C23_HeadingFlush ==
    [][HeadingStep =>
          IF state.cur.k = "TopLevel"
          THEN /\ Chars(wrote') =
                      PendingLines(data.pending_link_definitions)
                          \o (IF state.cur.margin_before # "NoMargin" THEN <<"\n">> ELSE <<>>)
                          \o <<"mark", "heading">>
               /\ data'.pending_link_definitions = <<>>
               /\ data'.next_link = data.next_link
          ELSE /\ Count(wrote', "mark") = 0
               /\ Count(wrote', "]:") = 0
               /\ data' = data]_vars

\* a top-level heading after a paragraph that left a reference pending
C23_Witness ==
    /\ phase = "run"
    /\ IsStart(last, "Heading") /\ Len(open) = 1
    /\ Len(wrote) > 4
    /\ Chars(SubSeq(wrote, Len(wrote) - 3, Len(wrote))) = <<"\n", "\n", "mark", "heading">>
    /\ Count(wrote, "]:") = 1
    /\ data.next_link = 2 /\ data.pending_link_definitions = <<>>

\* a heading in a list item while a reference is pending
C23_WitnessItem ==
    /\ phase = "run"
    /\ IsStart(last, "Heading") /\ Len(open) = 3 /\ open[2].tag = "Item"
    /\ Len(data.pending_link_definitions) = 1

-----------------------------------------------------------------------------
(* C24: at End(Link) in the plain-text sub-state (no native hyperlink), an  *)
(* autolink or email link pops the frame, writes nothing and changes        *)
(* neither the pending references nor the next index; every other link      *)
(* appends exactly one reference, writes the marker "[n]" with the index    *)
(* assigned to it, and pops.                                                *)

\* the call of this step is write_event with End(Link) in sub-state InlineText
PlainLinkEndStep ==
    /\ phase = "run" /\ phase' = "run" /\ n' = n + 1
    /\ IsEnd(last', "Link")
    /\ state.cur.k = "Inline" /\ state.cur.sub = "InlineText"

C24_PlainLinkEnd ==
    [][PlainLinkEndStep =>
          /\ state' = pop(state.stack)
          /\ IF last'.lt \in {"Autolink", "Email"}
             THEN wrote' = <<>> /\ data' = data
             ELSE /\ data'.pending_link_definitions =
                         Append(data.pending_link_definitions,
                                LinkReferenceDefinition(data.next_link, last'.target, "Blue"))
                  /\ data'.next_link = data.next_link + 1
                  /\ Chars(wrote') = RefMarker(data.next_link)
                  /\ \A i \in 1..Len(wrote') : wrote'[i].style.fg = "Blue"]_vars

\* an autolink has ended without a write, after a link that left a reference
C24_Witness ==
    /\ phase = "run"
    /\ IsEnd(last, "Link") /\ last.lt = "Autolink"
    /\ settings.links = "None"
    /\ wrote = <<>>
    /\ data.next_link = 2 /\ Len(data.pending_link_definitions) = 1

-----------------------------------------------------------------------------
(* C25: with an image capability and a hyperlink capability both            *)
(* configured, an image whose target resolves and that is rendered makes    *)
(* Start(Image) enter RenderedImage and begin no hyperlink; the hyperlink   *)
(* capability is consulted for an image only when no image capability is    *)
(* configured.                                                              *)

C25_ImagePriority ==
    (phase = "run" /\ IsStart(last, "Image")) =>
        /\ (settings.image # "None" /\ last.res /\ last.img /\ (settings.image = "Kitty" => settings.pixels))
               => state.cur.k = "RenderedImage" /\ Chars(wrote) = <<"image">>
        /\ settings.image # "None" =>
               Count(wrote, "set_link_url") = 0 /\ ~(state.cur.k = "Inline" /\ state.cur.sub = "InlineLink"
                                                       /\ state.stack[Len(state.stack)].sub # "InlineLink")
        /\ Count(wrote, "set_link_url") = 1 =>
               settings.image = "None" /\ settings.links = "OSC8" /\ last.res

\* an image was rendered on a terminal that also has the hyperlink capability
C25_Witness ==
    /\ phase = "run"
    /\ IsStart(last, "Image")
    /\ settings.image = "ITerm2" /\ settings.links = "OSC8"
    /\ state.cur.k = "RenderedImage"
    /\ Chars(wrote) = <<"image">>

-----------------------------------------------------------------------------
(* C26: native hyperlink spans are well bracketed: a Start(Link) or         *)
(* Start(Image) that begins a hyperlink enters the inside-hyperlink         *)
(* sub-state and does so only while no hyperlink is open; the End(Link) or  *)
(* End(Image) that arrives in the inside-hyperlink sub-state writes exactly *)
(* one clear_link and every other writes none; an image inside an open      *)
(* hyperlink begins no second span.                                         *)

\* the current frame is in the inside-hyperlink sub-state
InSpan(s) == s.cur.k = "Inline" /\ s.cur.sub = "InlineLink"

\* the call of this step is write_event with an event of a link or an image
SpanStep(t) ==
    /\ phase = "run" /\ phase' = "run" /\ n' = n + 1
    /\ last'.t = t /\ last'.tag \in {"Link", "Image"}

C26_Original ==
    [][/\ SpanStep("Start") =>
              /\ Count(wrote', "clear_link") = 0
              /\ Count(wrote', "set_link_url") \in {0, 1}
              /\ Count(wrote', "set_link_url") = 1 => ~InSpan(state) /\ InSpan(state')
       /\ SpanStep("End") =>
              /\ Count(wrote', "set_link_url") = 0
              /\ Count(wrote', "clear_link") = (IF InSpan(state) THEN 1 ELSE 0)]_vars

\* the same for images alone: an image in an open hyperlink begins no span
C26_ImageInSpan ==
    [][(SpanStep("Start") /\ last'.tag = "Image" /\ InSpan(state)) =>
           Count(wrote', "set_link_url") = 0 /\ ~InSpan(state')]_vars

-----------------------------------------------------------------------------
(* C27: at every Start(Item) the indent grows by the printed width of the   *)
(* marker just written, for an ordered item whatever its number; for an     *)
(* unordered item the growth is 2, the printed width of the bullet.         *)

\* the columns a line of tokens takes
RECURSIVE Columns(_)
Columns(w) ==
    IF w = <<>> THEN 0
    ELSE (IF w[1].c = "\n" THEN 0 ELSE w[1].w) + Columns(Tail(w))

\* the printed width of the marker: what Start(Item) wrote after the indent
MarkerWidth(indent, w) == Columns(w) - indent

C27_Original ==
    [][ItemStartStep =>
          /\ state'.cur.indent - state.cur.indent = MarkerWidth(state.cur.indent, wrote')
          /\ state.cur.li.kind = "Unordered" => state'.cur.indent - state.cur.indent = 2]_vars

\* the same for the items numbered below 100 and the unordered ones
C27_TwoDigits ==
    [][(ItemStartStep /\ (state.cur.li.kind = "Unordered" \/ state.cur.li.no < 100)) =>
          /\ state'.cur.indent - state.cur.indent = MarkerWidth(state.cur.indent, wrote')
          /\ state.cur.li.kind = "Unordered" => state'.cur.indent - state.cur.indent = 2]_vars

-----------------------------------------------------------------------------
(* C28: when a Rule is processed in a styled block or a list item, the      *)
(* current indent is at most the number of columns of the terminal, so the  *)
(* width columns - indent of the rule does not underflow, and the rule is   *)
(* written with that width.                                                 *)

\* a terminal narrower than the indent of two nested quotes (--columns 6)
NarrowColumns == 6
NarrowSettings == [PlainSettings EXCEPT !.columns = NarrowColumns]

\* the documents of SpecBlocks on the narrow terminal
SpecNarrow == InitWith(FALSE, {NarrowSettings}, MaxBlockEvents, MaxBlockDepth) /\ [][NextBlocks]_vars

\* the call of this step is write_event with Rule, in a styled block or a list item
RuleStep ==
    /\ phase = "run" /\ n' = n + 1 /\ last'.t = "Rule"
    /\ state.cur.k \in {"StyledBlock", "Inline"}

C28_Original ==
    [][RuleStep =>
          /\ state.cur.indent <= settings.columns
          /\ phase' = "run"
          /\ \A i \in 1..Len(wrote') :
                 wrote'[i].c = "rule" => wrote'[i].w = settings.columns - state.cur.indent]_vars

-----------------------------------------------------------------------------
(* C29: within a list item, a Text or Html event that arrives when text has *)
(* already been written on the current line is written without the indent   *)
(* of the item, also when that text was written inside an inline span that  *)
(* has since ended.                                                         *)

\* the current frame is inline content of a list item
InItem(s) == s.cur.k = "Inline" /\ s.cur.sub = "ListItem"

\* the call of this step is write_event with Text or Html, in a list item
ItemTextStep ==
    /\ phase = "run" /\ phase' = "run" /\ n' = n + 1
    /\ last'.t \in {"Text", "Html"}
    /\ InItem(state)

\* what was written starts with an indent of the given width
StartsWithIndent(w, indent) ==
    indent > 0 /\ w # <<>> /\ w[1].c = " " /\ w[1].w = indent /\ w[1].style = StyleNew

\* lists whose items hold rules, nested lists and text with emphasis
MaxItemEvents == 8
MaxItemDepth == 3

NextItems ==
    \/ StartList \/ StartTag("Item") \/ StartTag("Emphasis") \/ StartTag("Strong")
    \/ EndTag("List") \/ EndTag("Item") \/ EndTag("Emphasis") \/ EndTag("Strong")
    \/ Text \/ Rule

SpecItems == InitWith(FALSE, {PlainSettings}, MaxItemEvents, MaxItemDepth) /\ [][NextItems]_vars

C29_Original ==
    [][(ItemTextStep /\ ~trail.bol) => ~StartsWithIndent(wrote', state.cur.indent)]_vars

\* the same for the text that no inline span has preceded on its line
C29_Unspanned ==
    [][(ItemTextStep /\ ~trail.bol /\ last.t \in {"Text", "Html"}) =>
           ~StartsWithIndent(wrote', state.cur.indent)]_vars

-----------------------------------------------------------------------------
(* C30: End(Item) writes one line terminator exactly when the output of the *)
(* item ends in a line that is not yet terminated, and none otherwise, so   *)
(* that the output is at the beginning of a line when the next item starts; *)
(* also when the last text of the item was written inside an inline span    *)
(* that follows a block in the item.                                        *)

\* the call of this step is write_event with End(Item)
ItemEndStep == phase = "run" /\ phase' = "run" /\ n' = n + 1 /\ IsEnd(last', "Item")

C30_Original ==
    [][ItemEndStep =>
          /\ Count(wrote', "\n") = (IF trail.bol THEN 0 ELSE 1)
          /\ trail'.bol]_vars

\* the same for the item whose last event is a Text event
C30_AfterText ==
    [][(ItemEndStep /\ last.t = "Text") =>
          /\ Count(wrote', "\n") = (IF trail.bol THEN 0 ELSE 1)
          /\ trail'.bol]_vars

-----------------------------------------------------------------------------
(* C31: write_event changes the link-reference data in three rules only:    *)
(* End(Link) in the plain-text sub-state for a link that is neither an      *)
(* autolink nor an email link appends one entry, End(Image) in an inline    *)
(* state that is not inside a hyperlink appends one entry, and              *)
(* Start(Heading) at top level drains the pending entries; every other      *)
(* rule returns the data it was given.                                      *)

\* the step is one call of write_event
EventStep == phase = "run" /\ n' = n + 1

\* the data after one entry was appended to d
OneAppended(d, dd) ==
    /\ Len(dd.pending_link_definitions) = Len(d.pending_link_definitions) + 1
    /\ SubSeq(dd.pending_link_definitions, 1, Len(d.pending_link_definitions)) = d.pending_link_definitions
    /\ dd.pending_link_definitions[Len(dd.pending_link_definitions)].index = d.next_link
    /\ dd.next_link = d.next_link + 1

C31_DataFrame ==
    [][EventStep =>
          IF /\ phase' = "run" /\ IsEnd(last', "Link") /\ last'.lt \notin {"Autolink", "Email"}
             /\ state.cur.k = "Inline" /\ state.cur.sub = "InlineText"
          THEN OneAppended(data, data')
          ELSE IF /\ phase' = "run" /\ IsEnd(last', "Image")
                  /\ state.cur.k = "Inline" /\ state.cur.sub # "InlineLink"
          THEN OneAppended(data, data')
          ELSE IF phase' = "run" /\ IsStart(last', "Heading") /\ state.cur.k = "TopLevel"
          THEN data' = [data EXCEPT !.pending_link_definitions = <<>>]
          ELSE data' = data]_vars

\* an image that became a reference is pending when a hyperlink ends
C31_Witness ==
    /\ phase = "run"
    /\ IsEnd(last, "Link") /\ last.lt = "Inline"
    /\ Count(wrote, "clear_link") = 1
    /\ Len(data.pending_link_definitions) = 1
    /\ data.pending_link_definitions[1].colour = "Purple"

-----------------------------------------------------------------------------
(* C32: Start(Emphasis) toggles italic, Start(Strong) sets bold and          *)
(* Start(Strikethrough) sets strikethrough in the current style; each       *)
(* pushes the current frame and changes nothing else of it, neither the     *)
(* indent nor the inline sub-state.  Emphasis directly inside emphasis      *)
(* returns to the italic value before the outer one; Strong directly in     *)
(* Strong and Strikethrough directly in Strikethrough change no attribute.  *)

\* the call of this step is write_event with Start(tag)
SpanStartStep(tag) == phase = "run" /\ phase' = "run" /\ n' = n + 1 /\ IsStart(last', tag)

-----------------------------------------------------------------------------
(* KittyImages::write_inline_image (terminal/kitty.rs): the image contents  *)
(* are encoded as base64 and written in chunks, one escape command a chunk  *)

\* the payload bytes of one command: image_data.as_bytes().chunks(4096)
KittyChunk == 4096

\* base64::encode(&image.contents): the length of the padded encoding
base64_len(bytes) == 4 * ((bytes + 2) \div 3)

\* slice::chunks(size).len() for a slice of the given length
chunks_len(length, size) == (length + size - 1) \div size

\* the i-th chunk (from 0) of a slice of the given length: [off, size]
chunk_at(length, size, i) ==
    [off |-> i * size,
     size |-> IF length - i * size < size THEN length - i * size ELSE size]

\* the test on m: whether more commands follow that i chunks were not the last
KittyMore_EveryChunk(i, length) == i < length

KittyMore(i, length) == i < length - 1

\* the image contents explored: up to MaxKittyChunks full chunks of payload
\* (3072 bytes encode to 4096), and a few bytes more or one less
MaxKittyChunks == 3
KittyImageSizes ==
    {k * 3072 + d : k \in 0..MaxKittyChunks, d \in {0, 1, 2, 3, 3071}}

\* the call: the header of the first command, the payload encoded
write_inline_image_call ==
    /\ kitty.pc = "called"
    /\ kitty' = [kitty EXCEPT
                    !.header = <<"a=T", "t=d", "f">> \o (IF kitty.dim THEN <<"s", "v">> ELSE <<>>),
                    !.pc = IF chunks_len(base64_len(kitty.bytes), KittyChunk) = 0
                           THEN "done" ELSE "loop"]
    /\ UNCHANGED <<state, data, settings, open, last, closed, wrote, doc, stream, rec,
                   phase, sink, n, pushes, pops, trail, limit, other, resource>>

\* one turn of the loop: the command of chunk i is written and flushed,
\* and the header is cleared
write_inline_image_chunk ==
    /\ kitty.pc = "loop"
    /\ LET length == chunks_len(base64_len(kitty.bytes), KittyChunk)
           c == chunk_at(base64_len(kitty.bytes), KittyChunk, kitty.i)
           m == IF KittyMore(kitty.i, length) THEN 1 ELSE 0
       IN kitty' = [kitty EXCEPT
                       !.out = Append(@, [header |-> kitty.header, m |-> m,
                                          off |-> c.off, size |-> c.size]),
                       !.header = <<>>,
                       !.i = @ + 1,
                       !.pc = IF kitty.i + 1 = length THEN "done" ELSE "loop"]
    /\ UNCHANGED <<state, data, settings, open, last, closed, wrote, doc, stream, rec,
                   phase, sink, n, pushes, pops, trail, limit, other, resource>>

\* writer.write_all(..)? or writer.flush()? returns the error of the writer
write_inline_image_error ==
    /\ kitty.pc = "loop"
    /\ kitty' = [kitty EXCEPT !.pc = "failed"]
    /\ UNCHANGED <<state, data, settings, open, last, closed, wrote, doc, stream, rec,
                   phase, sink, n, pushes, pops, trail, limit, other, resource>>

NextKitty == write_inline_image_call \/ write_inline_image_chunk \/ write_inline_image_error

InitKitty ==
    /\ kitty \in {[NoKitty EXCEPT !.bytes = b, !.dim = d, !.pc = "called"] :
                     b \in KittyImageSizes, d \in BOOLEAN}
    /\ resource = NoResource
    /\ state = St(<<>>, TopLevelAttrs("NoMargin"))
    /\ data = StateDataDefault
    /\ settings = [PlainSettings EXCEPT !.image = "Kitty"]
    /\ open = <<>> /\ last = NoEvent /\ closed = NoEntry
    /\ wrote = <<>> /\ doc = <<>> /\ stream = <<>> /\ rec = FALSE
    /\ phase = "run" /\ sink = "ok" /\ n = 0 /\ pushes = 0 /\ pops = 0
    /\ trail = [bol |-> TRUE, blank |-> 0]
    /\ limit = [events |-> 0, depth |-> 0]
    /\ other = NoOther

SpecKitty == InitKitty /\ [][NextKitty]_vars

-----------------------------------------------------------------------------
(* C33: write_inline_image writes the base64 payload as commands in payload *)
(* order, each with at least 1 and at most 4096 payload bytes; every        *)
(* command but the last carries m=1; when the call has returned without an  *)
(* error the commands cover the payload, and for a payload that is not      *)
(* empty exactly one command carries m=0 and it is the last one.            *)

\* the payload bytes of the commands written
RECURSIVE PayloadWritten(_)
PayloadWritten(out) == IF out = <<>> THEN 0 ELSE out[1].size + PayloadWritten(Tail(out))

C33_KittyChunks ==
    LET out == kitty.out
        payload == base64_len(kitty.bytes)
    IN /\ \A j \in 1..Len(out) :
              /\ out[j].size \in 1..4096
              /\ out[j].off = PayloadWritten(SubSeq(out, 1, j - 1))
              /\ j < Len(out) => out[j].m = 1
              /\ out[j].m = 0 => out[j].off + out[j].size = payload
              /\ out[j].m = 1 => out[j].off + out[j].size < payload
       /\ kitty.pc = "done" =>
              /\ PayloadWritten(out) = payload
              /\ payload > 0 => out # <<>> /\ out[Len(out)].m = 0
              /\ payload > 0 => Cardinality({j \in 1..Len(out) : out[j].m = 0}) = 1
              /\ payload = 0 => out = <<>>

\* a payload of three full chunks and four bytes was written in four commands
C33_Witness ==
    /\ kitty.pc = "done"
    /\ Len(kitty.out) = 4
    /\ kitty.out[3].size = 4096 /\ kitty.out[3].m = 1
    /\ kitty.out[4].size = 4 /\ kitty.out[4].m = 0

-----------------------------------------------------------------------------
(* Resource (resources.rs): a reference of the document as a remote URL or  *)
(* a local file, and the bytes read from it.  A reference is a sequence of  *)
(* symbols: "a" a letter, "http" the letters of that scheme, ":" and "/".   *)

Letters == {"a", "http"}
MaxReference == 4
References == UNION {[1..k -> Letters \cup {":", "/"}] : k \in 0..MaxReference}
BaseDirs == {<<"/">>, <<"/", "a">>}

\* the symbols before the first ":" if they are letters and at least one, else 0
SchemeLen(reference) ==
    IF \E k \in 2..Len(reference) :
           reference[k] = ":" /\ \A j \in 1..(k - 1) : reference[j] \in Letters
    THEN (CHOOSE k \in 2..Len(reference) :
              reference[k] = ":" /\ \A j \in 1..(k - 1) : reference[j] \in Letters) - 1
    ELSE 0

\* the sequence without its leading slashes
RECURSIVE SkipSlashes(_)
SkipSlashes(r) == IF r # <<>> /\ r[1] = "/" THEN SkipSlashes(Tail(r)) ELSE r

\* Url::parse(reference).is_ok(): a reference without a scheme is relative
\* and has no base; http is a special scheme and needs a host
Url_parse(reference) ==
    LET k == SchemeLen(reference)
        rest == SkipSlashes(SubSeq(reference, k + 2, Len(reference)))
    IN IF k = 0 THEN FALSE
       ELSE IF k = 1 /\ reference[1] = "http" THEN rest # <<>> /\ rest[1] \in Letters
       ELSE TRUE

\* Path::is_absolute
is_absolute(path) == path # <<>> /\ path[1] = "/"

\* Path::join: an absolute path replaces base; a separator is added if base
\* does not end in one
join(base, path) ==
    IF is_absolute(path) THEN path
    ELSE base \o (IF base # <<>> /\ base[Len(base)] # "/" THEN <<"/">> ELSE <<>>) \o path

Remote(url) == [k |-> "Remote", at |-> url]
LocalFile(path) == [k |-> "LocalFile", at |-> path]

\* Resource::from_reference(base_dir, reference)
from_reference(base_dir, reference) ==
    IF Url_parse(reference) THEN Remote(reference)
    ELSE IF is_absolute(reference) THEN LocalFile(reference)
    ELSE LocalFile(join(base_dir, reference))

\* io::Result<Vec<u8>>
IoOk(bytes) == [ok |-> TRUE, kind |-> "-", bytes |-> bytes]
IoErr(kind) == [ok |-> FALSE, kind |-> kind, bytes |-> <<>>]

\* what the file system answers for a path: the error of File::open, the
\* error of read_to_end, or the contents of the file
Files ==
    {[open |-> o, read |-> "-", contents |-> <<>>] : o \in {"NotFound", "PermissionDenied"}}
    \cup {[open |-> "ok", read |-> "Other", contents |-> <<"x", "y">>]}
    \cup {[open |-> "ok", read |-> "ok", contents |-> c] : c \in {<<>>, <<"x">>, <<"x", "y">>}}

\* Resource::read of a remote resource that fetches it
read_Fetching(res, file) ==
    IF res.k = "Remote"
    THEN [result |-> IoOk(file.contents), io |-> <<<<"get", res.at>>>>]
    ELSE IF file.open # "ok"
    THEN [result |-> IoErr(file.open), io |-> <<<<"open", res.at>>>>]
    ELSE IF file.read # "ok"
    THEN [result |-> IoErr(file.read), io |-> <<<<"open", res.at>>, <<"read_to_end", res.at>>>>]
    ELSE [result |-> IoOk(file.contents), io |-> <<<<"open", res.at>>, <<"read_to_end", res.at>>>>]

\* Resource::read: the result and the calls made to the file system
read(res, file) ==
    IF res.k = "Remote"
    THEN [result |-> IoErr("PermissionDenied"), io |-> <<>>]
    ELSE IF file.open # "ok"
    THEN [result |-> IoErr(file.open), io |-> <<<<"open", res.at>>>>]
    ELSE IF file.read # "ok"
    THEN [result |-> IoErr(file.read), io |-> <<<<"open", res.at>>, <<"read_to_end", res.at>>>>]
    ELSE [result |-> IoOk(file.contents), io |-> <<<<"open", res.at>>, <<"read_to_end", res.at>>>>]

ResourceFromReference ==
    /\ resource.pc = "called"
    /\ resource' = [resource EXCEPT !.pc = "made",
                                    !.res = from_reference(resource.base_dir, resource.reference)]
    /\ UNCHANGED <<state, data, settings, open, last, closed, wrote, doc, stream, rec,
                   phase, sink, n, pushes, pops, trail, limit, other, kitty>>

ResourceRead ==
    /\ resource.pc = "made"
    /\ \E file \in Files :
           resource' = [resource EXCEPT !.pc = "read", !.file = file,
                                        !.result = read(resource.res, file).result,
                                        !.io = read(resource.res, file).io]
    /\ UNCHANGED <<state, data, settings, open, last, closed, wrote, doc, stream, rec,
                   phase, sink, n, pushes, pops, trail, limit, other, kitty>>

NextResource == ResourceFromReference \/ ResourceRead

InitResource ==
    /\ resource \in {[NoResource EXCEPT !.reference = r, !.base_dir = b, !.pc = "called"] :
                        r \in References, b \in BaseDirs}
    /\ kitty = NoKitty
    /\ state = St(<<>>, TopLevelAttrs("NoMargin"))
    /\ data = StateDataDefault
    /\ settings = PlainSettings
    /\ open = <<>> /\ last = NoEvent /\ closed = NoEntry
    /\ wrote = <<>> /\ doc = <<>> /\ stream = <<>> /\ rec = FALSE
    /\ phase = "run" /\ sink = "ok" /\ n = 0 /\ pushes = 0 /\ pops = 0
    /\ trail = [bol |-> TRUE, blank |-> 0]
    /\ limit = [events |-> 0, depth |-> 0]
    /\ other = NoOther

SpecResource == InitResource /\ [][NextResource]_vars

-----------------------------------------------------------------------------
(* C34: from_reference gives Remote exactly when the reference parses as a  *)
(* URL, and otherwise a LocalFile whose path is the reference if it is      *)
(* absolute and base_dir joined with the reference if it is relative; read  *)
(* on a Remote resource returns a PermissionDenied error and makes no call  *)
(* to the file system; read on a LocalFile returns the full contents of the *)
(* file, or the error of opening or of reading it.                          *)

C34_Resource ==
    LET r == resource.reference
        b == resource.base_dir
        res == resource.res
        file == resource.file
        result == resource.result
    IN /\ resource.pc \in {"made", "read"} =>
              /\ res.k = "Remote" <=> Url_parse(r)
              /\ res.k = "Remote" => res.at = r
              /\ res.k # "Remote" =>
                     /\ res.k = "LocalFile"
                     /\ res.at = IF r # <<>> /\ r[1] = "/" THEN r
                                 ELSE IF b[Len(b)] = "/" THEN b \o r
                                 ELSE b \o <<"/">> \o r
       /\ resource.pc = "read" =>
              IF res.k = "Remote"
              THEN /\ ~result.ok /\ result.kind = "PermissionDenied"
                   /\ resource.io = <<>>
              ELSE /\ result.ok <=> (file.open = "ok" /\ file.read = "ok")
                   /\ result.ok => result.bytes = file.contents
                   /\ ~result.ok => result.kind = (IF file.open # "ok" THEN file.open ELSE file.read)
                   /\ \A j \in 1..Len(resource.io) : resource.io[j][2] = res.at

\* a URL was refused although a file system would have answered
C34_Witness ==
    /\ resource.pc = "read"
    /\ resource.reference = <<"http", ":", "/", "a">>
    /\ resource.res.k = "Remote"
    /\ resource.file.open = "ok" /\ resource.file.read = "ok"
    /\ resource.result.kind = "PermissionDenied"
    /\ resource.io = <<>>

====
